---------------------------- MODULE Spec2Model ----------------------------
(***************************************************************************)
(* A model of the voyager DAO contract (cmwaters/voyager):                 *)
(*   src/contract/src/policy.rs     the policy engine                      *)
(*   src/contract/src/proposals.rs  the proposal store and vote tally      *)
(*   src/contract/src/bounties.rs   the bounty subsystem                   *)
(* Every public method is one atomic call: a panic (a failed assert!, an   *)
(* expect on None, an arithmetic overflow, an index out of bounds) aborts  *)
(* the call and leaves the contract state as it was.  A handler is an      *)
(* operator from the state before the call and the call's inputs to an     *)
(* outcome [err, st]: err is "OK" or the panic's tag, st the state the     *)
(* call commits when err = "OK".                                           *)
(***************************************************************************)
EXTENDS Integers, Sequences, FiniteSets, TLC

VARIABLES
    config,               \* Contract.config
    policy,               \* Contract.policy: a VersionedPolicy
    staking_id,           \* Contract.staking_id: NoAccount or an account
    proposals,            \* Contract.proposals: id -> Proposal (a partial map)
    last_proposal_id,     \* Contract.last_proposal_id
    bounties,             \* Contract.bounties: id -> Bounty (a partial map)
    last_bounty_id,       \* Contract.last_bounty_id
    bounty_claims_count,  \* Contract.bounty_claims_count: id -> u32 (partial)
    bounty_claimers,      \* Contract.bounty_claimers: account -> Seq(BountyClaim)
    refunds,              \* proposal-bond transfers emitted so far, per <<id, version>>
    payouts,              \* bounty-amount transfers emitted so far, per <<bounty, account>>
    bond_returns,         \* bounty-bond transfers emitted so far, per account
    claims_made,          \* bounty_claim calls that succeeded so far, per <<bounty, account>>
    now,                  \* env::block_timestamp()
    overflow_checks       \* the build: TRUE when integer overflow panics, FALSE when it wraps

vars == <<config, policy, staking_id, proposals, last_proposal_id, bounties, last_bounty_id,
          bounty_claims_count, bounty_claimers, refunds, payouts, bond_returns,
          claims_made, now, overflow_checks>>

----------------------------------------------------------------------------
(* Bounds of the model.                                                    *)

\* proposals created in one run of Spec and of SpecOpen
MaxProposals == 1
\* proposals created in one run of SpecBounty: one adds the bounty, the
\* others pay it out
MaxBountyProposals == 2
\* proposals created in one run of SpecStaking
MaxStakingProposals == 2
\* proposals created in one run of SpecMembers
MaxMemberProposals == 2
\* proposals created in one run of SpecIds
MaxIdProposals == 3
\* proposals created in one run of SpecKindChange
MaxKindProposals == 2
\* the largest total supply the staking oracle reports in SpecThreshold
MaxTotal == 5
\* proposals created in one run of SpecMulti
MaxMultiProposals == 2
\* bounty bonds returned to one account in one run
MaxBondReturns == 1
\* claims one account holds at a time
MaxClaims == 1
\* bounty_claim calls of one account on one bounty in one run
MaxClaimCalls == 2
\* the largest claim count of a bounty, short of a wrapped one
MaxCount == 2
\* bounties added in one run
MaxBounties == 1
\* versions of one proposal (guards CounterPropose)
MaxVersions == 2
\* the clock stops here (guards Tick)
MaxTime == 2
\* bond refunds recorded per version (guards Finalize, which the code lets repeat)
MaxRefunds == 2

(* Program constants, in model units.                                      *)

\* policy.proposal_bond and policy.bounty_bond of default_policy (10^24 yocto = 1 unit)
DefaultBond == 1
\* policy.proposal_period of default_policy (one week = 1 tick)
DefaultProposalPeriod == 1
\* policy.bounty_forgiveness_period of default_policy (one day = 0 ticks: shorter than a tick)
DefaultForgivenessPeriod == 0
\* u32::MAX, the value 0 - 1 wraps to in bounty_claims_count; it stands for
\* 4294967295, which is past the numbers TLC holds
U32Max == 2147483647

NoAccount == "none"
OK == "OK"
\* an abort with no canonical tag: arithmetic overflow, index out of bounds,
\* unwrap on None, division by zero
PANIC == "PANIC"

Min(x, y) == IF x <= y THEN x ELSE y
Max(x, y) == IF x >= y THEN x ELSE y

\* a partial map with key k set to v, and with key k deleted
MapInsert(m, k, v) == [x \in DOMAIN m \cup {k} |-> IF x = k THEN v ELSE m[x]]
MapRemove(m, k) == [x \in DOMAIN m \ {k} |-> m[x]]
\* a counter map with key k incremented
Bump(m, k) == MapInsert(m, k, (IF k \in DOMAIN m THEN m[k] ELSE 0) + 1)
Count(m, k) == IF k \in DOMAIN m THEN m[k] ELSE 0
Empty == [x \in {} |-> 0]

----------------------------------------------------------------------------
(* policy.rs                                                               *)

Everyone == [type |-> "Everyone"]
Member(amount) == [type |-> "Member", amount |-> amount]
Group(accounts) == [type |-> "Group", accounts |-> accounts]

\* RoleKind::match_user
match_user(kind, user) ==
    CASE kind.type = "Everyone" -> TRUE
      [] kind.type = "Member" -> user.amount >= kind.amount
      [] kind.type = "Group" -> user.account_id \in kind.accounts

\* RoleKind::get_role_size: -1 stands for None
get_role_size(kind) ==
    IF kind.type = "Group" THEN Cardinality(kind.accounts) ELSE -1

\* RoleKind::add_member_to_group: the kind afterwards (unchanged on Err)
add_member_to_group(kind, member_id) ==
    IF kind.type = "Group" THEN Group(kind.accounts \cup {member_id}) ELSE kind

\* RoleKind::remove_member_from_group
remove_member_from_group(kind, member_id) ==
    IF kind.type = "Group" THEN Group(kind.accounts \ {member_id}) ELSE kind

Weight(w) == [type |-> "Weight", weight |-> w]
Ratio(num, denom) == [type |-> "Ratio", num |-> num, denom |-> denom]

\* to_weight without the + 1 of the Ratio arm
to_weight_floor(threshold, total_weight) ==
    CASE threshold.type = "Weight" -> Min(threshold.weight, total_weight)
      [] threshold.type = "Ratio" ->
            IF threshold.denom = 0 THEN -1
            ELSE Min((threshold.num * total_weight) \div threshold.denom, total_weight)

\* WeightOrRatio::to_weight; -1 stands for the division-by-zero panic
to_weight(threshold, total_weight) ==
    CASE threshold.type = "Weight" -> Min(threshold.weight, total_weight)
      [] threshold.type = "Ratio" ->
            IF threshold.denom = 0 THEN -1
            ELSE Min((threshold.num * total_weight) \div threshold.denom + 1, total_weight)

\* impl Default for VotePolicy
DefaultVotePolicy ==
    [weight_kind |-> "RoleWeight", quorum |-> 0, threshold |-> Ratio(1, 2)]

\* format!("{}:{}", proposal_kind, label)
Perm(proposal_kind, label) == proposal_kind \o ":" \o label

\* Action::to_label: the textual name of the variant
to_label(action) == action

\* fn default_policy
default_policy(council) ==
    [proposal_kinds |-> <<>>,
     roles |-> <<
        [name |-> "all", kind |-> Everyone, permissions |-> {"*:AddProposal"}],
        [name |-> "council", kind |-> Group(council),
         permissions |-> {"*:AddProposal", "*:VoteApprove", "*:VoteReject",
                          "*:VoteRemove", "*:Finalize"}] >>,
     default_vote_policy |-> DefaultVotePolicy,
     proposal_bond |-> DefaultBond,
     proposal_period |-> DefaultProposalPeriod,
     bounty_bond |-> DefaultBond,
     bounty_forgiveness_period |-> DefaultForgivenessPeriod]

\* VersionedPolicy
VDefault(accounts) == [version |-> "Default", accounts |-> accounts]
VCurrent(p) == [version |-> "Current", policy |-> p]

\* VersionedPolicy::upgrade
upgrade(vp) ==
    IF vp.version = "Default" THEN VCurrent(default_policy(vp.accounts)) ELSE vp

\* Policy::add_member_to_role: the first role of that name is edited; log and
\* no-op when it is not a Group or no role has the name
add_member_to_role(p, role, member_id) ==
    LET idx == {i \in DOMAIN p.roles : p.roles[i].name = role} IN
    IF idx = {} THEN p
    ELSE LET i == CHOOSE i \in idx : \A j \in idx : i <= j IN
         [p EXCEPT !.roles[i].kind = add_member_to_group(@, member_id)]

\* Policy::remove_member_from_role
remove_member_from_role(p, role, member_id) ==
    LET idx == {i \in DOMAIN p.roles : p.roles[i].name = role} IN
    IF idx = {} THEN p
    ELSE LET i == CHOOSE i \in idx : \A j \in idx : i <= j IN
         [p EXCEPT !.roles[i].kind = remove_member_from_group(@, member_id)]

\* Policy::get_user_roles: a HashMap keyed by role name, so of the matching
\* roles that share a name the last one inserted stays
get_user_roles(p, user) ==
    LET match == {i \in DOMAIN p.roles : match_user(p.roles[i].kind, user)}
        names == {p.roles[i].name : i \in match}
        last(n) == CHOOSE i \in match :
                      /\ p.roles[i].name = n
                      /\ \A j \in match : p.roles[j].name = n => j <= i
    IN [n \in names |-> p.roles[last(n)].permissions]

\* Policy::get_vote_policy, with the callers' unwrap_or(&default_vote_policy)
get_vote_policy(p, proposal_kind) ==
    LET idx == {i \in DOMAIN p.proposal_kinds : p.proposal_kinds[i].name = proposal_kind} IN
    IF idx = {} THEN p.default_vote_policy
    ELSE p.proposal_kinds[CHOOSE i \in idx : \A j \in idx : i <= j].vote_policy

\* Instruction::to_enum
to_enum(instr) ==
    CASE instr.tag = "ChangeConfig" -> 0
      [] instr.tag = "ChangePolicy" -> 1
      [] instr.tag = "AddMemberToRole" -> 2
      [] instr.tag = "RemoveMemberFromRole" -> 3
      [] instr.tag = "FunctionCall" -> 4
      [] instr.tag = "UpgradeSelf" -> 5
      [] instr.tag = "UpgradeRemote" -> 6
      [] instr.tag = "Transfer" -> 7
      [] instr.tag = "SetStakingContract" -> 8
      [] instr.tag = "AddBounty" -> 9
      [] instr.tag = "BountyDone" -> 10
      [] instr.tag = "Vote" -> 11

\* ProposalKind::match_proposal
match_proposal(kind, instructions) ==
    LET instruction_kind == {to_enum(instructions[i]) : i \in DOMAIN instructions} IN
    \A instr \in kind.required_instrs : instr \in instruction_kind

\* the name of the last matching kind
match_proposal_kind_last(p, instructions) ==
    LET idx == {i \in DOMAIN p.proposal_kinds : match_proposal(p.proposal_kinds[i], instructions)} IN
    IF idx = {} THEN ""
    ELSE p.proposal_kinds[CHOOSE i \in idx : \A j \in idx : j <= i].name

\* Policy::match_proposal_kind
match_proposal_kind(p, instructions) ==
    LET idx == {i \in DOMAIN p.proposal_kinds : match_proposal(p.proposal_kinds[i], instructions)} IN
    IF idx = {} THEN ""
    ELSE p.proposal_kinds[CHOOSE i \in idx : \A j \in idx : i <= j].name

\* Policy::can_execute_action
can_execute_action(p, user, proposal_kind, action) ==
    LET roles == get_user_roles(p, user) IN
    \E n \in DOMAIN roles :
        \/ Perm(proposal_kind, to_label(action)) \in roles[n]
        \/ Perm(proposal_kind, "*") \in roles[n]
        \/ Perm("*", to_label(action)) \in roles[n]
        \/ "*:*" \in roles[n]

\* the roles get_threshold sums over under RoleWeight
ThresholdRoles(p, proposal_kind) ==
    {i \in DOMAIN p.roles :
        \/ Perm(proposal_kind, "*") \in p.roles[i].permissions
        \/ Perm("*", to_label("VoteApprove")) \in p.roles[i].permissions
        \/ Perm(proposal_kind, to_label("VoteApprove")) \in p.roles[i].permissions}

RECURSIVE SumSizes(_, _)
SumSizes(p, idx) ==
    IF idx = {} THEN 0
    ELSE LET i == CHOOSE i \in idx : TRUE IN
         get_role_size(p.roles[i].kind) + SumSizes(p, idx \ {i})

\* get_threshold without the max with the quorum
get_threshold_no_quorum(p, vote_policy, total_supply, proposal_kind) ==
    LET idx == ThresholdRoles(p, proposal_kind)
        unsupported == vote_policy.weight_kind = "RoleWeight"
                       /\ \E i \in idx : get_role_size(p.roles[i].kind) = -1
        total == IF vote_policy.weight_kind = "TokenWeight" THEN total_supply
                 ELSE IF unsupported THEN 0 ELSE SumSizes(p, idx)
        w == to_weight(vote_policy.threshold, total)
    IN IF unsupported THEN [err |-> "ERR_UNSUPPORTED_ROLE", val |-> 0]
       ELSE IF w = -1 THEN [err |-> PANIC, val |-> 0]
       ELSE [err |-> OK, val |-> w]

\* Policy::get_threshold: [err, val]
get_threshold(p, vote_policy, total_supply, proposal_kind) ==
    LET idx == ThresholdRoles(p, proposal_kind)
        unsupported == vote_policy.weight_kind = "RoleWeight"
                       /\ \E i \in idx : get_role_size(p.roles[i].kind) = -1
        total == IF vote_policy.weight_kind = "TokenWeight" THEN total_supply
                 ELSE IF unsupported THEN 0 ELSE SumSizes(p, idx)
        w == to_weight(vote_policy.threshold, total)
    IN IF unsupported THEN [err |-> "ERR_UNSUPPORTED_ROLE", val |-> 0]
       ELSE IF w = -1 THEN [err |-> PANIC, val |-> 0]
       ELSE [err |-> OK, val |-> Max(vote_policy.quorum, w)]

----------------------------------------------------------------------------
(* The contract state a handler reads and writes, and the call's           *)
(* environment: env::predecessor_account_id(), env::attached_deposit(),    *)
(* env::block_timestamp(), the caller's weight and the total delegated     *)
(* (the staking oracle), and the build's overflow behaviour.               *)

State ==
    [config |-> config, policy |-> policy, staking_id |-> staking_id,
     proposals |-> proposals,
     last_proposal_id |-> last_proposal_id, bounties |-> bounties,
     last_bounty_id |-> last_bounty_id, bounty_claims_count |-> bounty_claims_count,
     bounty_claimers |-> bounty_claimers, refunds |-> refunds, payouts |-> payouts,
     bond_returns |-> bond_returns, claims_made |-> claims_made]

Env(caller, deposit, weight, total) ==
    [predecessor |-> caller, attached_deposit |-> deposit, block_timestamp |-> now,
     user_weight |-> weight, total_delegation_amount |-> total,
     overflow_checks |-> overflow_checks]

Fail(e, st) == [err |-> e, st |-> st]
Done(st) == [err |-> OK, st |-> st]

\* Contract::internal_user_info
internal_user_info(env) ==
    [account_id |-> env.predecessor, amount |-> env.user_weight]

----------------------------------------------------------------------------
(* proposals.rs: Proposal                                                  *)

InProgress == [type |-> "InProgress"]
Approved(v) == [type |-> "Approved", version |-> v]
Rejected == [type |-> "Rejected"]
Expired == [type |-> "Expired"]

\* the first branch of update_votes: the tallies after "reverting" the old vote
RevertOldVote(proposal, old) ==
    IF old.choice = 0
    THEN [proposal EXCEPT !.reject_count = @ - old.weight]
    ELSE [proposal EXCEPT !.approve_count[old.choice] = @ + old.weight]

\* Proposal::update_votes: [err, proposal, status].  approve_count,
\* remove_count and remove_flag are 1-based here: version v is index v + 1,
\* which is the vote's choice.
update_votes(proposal, account_id, vote, threshold) ==
    LET has_old == account_id \in DOMAIN proposal.votes
        old == proposal.votes[account_id]
        p1 == [proposal EXCEPT !.votes = MapInsert(@, account_id, vote)]
        \* reject_count is a u128: subtracting more than it holds overflows
        underflow == has_old /\ old.choice = 0 /\ proposal.reject_count < old.weight
        p2 == IF has_old THEN RevertOldVote(p1, old) ELSE p1
        weight == IF has_old THEN old.weight ELSE vote.weight
    IN
    IF underflow THEN [err |-> PANIC, proposal |-> proposal, status |-> proposal.status]
    \* remove_flag[(vote.choice - 1) as usize] with choice = 0: the u8
    \* subtraction overflows (a panic), or wraps to 255, an index past the
    \* end of remove_flag (a panic as well)
    ELSE IF vote.choice = 0
    THEN [err |-> PANIC, proposal |-> proposal, status |-> proposal.status]
    ELSE IF p2.remove_flag[vote.choice]
    THEN [err |-> "ERR_PROPOSAL_REMOVED", proposal |-> proposal, status |-> proposal.status]
    ELSE
        LET p3 == [p2 EXCEPT !.approve_count[vote.choice] = @ + weight]
            status == IF p3.reject_count >= threshold THEN Rejected
                      ELSE IF p3.approve_count[vote.choice] >= threshold
                           THEN Approved(vote.choice - 1)
                           ELSE InProgress
        IN [err |-> OK, proposal |-> p3, status |-> status]

\* update_remove_votes without its search for an equal vote
update_remove_votes_repeatable(proposal, vote, weight, threshold) ==
    IF ~(vote.version < Len(proposal.versions))
    THEN [err |-> "ERR_NO_PROPOSAL_VERSION", proposal |-> proposal, flag |-> FALSE]
    ELSE
        LET p1 == [proposal EXCEPT !.remove_count[vote.version + 1] = @ + weight,
                                   !.remove_votes = @ \cup {vote}]
        IN [err |-> OK, proposal |-> p1,
            flag |-> p1.remove_count[vote.version + 1] >= threshold]

\* Proposal::update_remove_votes: [err, proposal, flag].  remove_votes is a Vec
\* that is only ever searched for an equal element and pushed to: the model
\* keeps the set of its elements.
update_remove_votes(proposal, vote, weight, threshold) ==
    IF ~(vote.version < Len(proposal.versions))
    THEN [err |-> "ERR_NO_PROPOSAL_VERSION", proposal |-> proposal, flag |-> FALSE]
    ELSE IF vote \in proposal.remove_votes
    THEN [err |-> "ERR_ALREADY_VOTED", proposal |-> proposal, flag |-> FALSE]
    ELSE
        LET p1 == [proposal EXCEPT !.remove_count[vote.version + 1] = @ + weight,
                                   !.remove_votes = @ \cup {vote}]
        IN [err |-> OK, proposal |-> p1,
            flag |-> p1.remove_count[vote.version + 1] >= threshold]

\* Proposal::create_vote: [err, vote]
create_vote(proposal, vote_policy, choice, user_weight) ==
    IF ~(choice <= Len(proposal.versions))
    THEN [err |-> "ERR_NO_PROPOSAL_VERSION", vote |-> [choice |-> choice, weight |-> 0]]
    ELSE [err |-> OK,
          vote |-> [choice |-> choice,
                    weight |-> IF vote_policy.weight_kind = "TokenWeight"
                               THEN user_weight ELSE 1]]

\* Policy::proposal_status: [err, status]
proposal_status(p, proposal, total_supply, block_timestamp) ==
    IF proposal.status # InProgress
    THEN [err |-> "ERR_PROPOSAL_NOT_IN_PROGRESS", status |-> proposal.status]
    ELSE IF proposal.submission_time + p.proposal_period < block_timestamp
    THEN [err |-> OK, status |-> Expired]
    ELSE
        LET t == get_threshold(p, get_vote_policy(p, proposal.kind), total_supply,
                               proposal.kind)
            over == {i \in DOMAIN proposal.approve_count : proposal.approve_count[i] >= t.val}
        IN IF t.err # OK THEN [err |-> t.err, status |-> proposal.status]
           ELSE IF proposal.reject_count > t.val THEN [err |-> OK, status |-> Rejected]
           ELSE IF over # {}
                THEN [err |-> OK,
                      status |-> Approved((CHOOSE i \in over : \A j \in over : i <= j) - 1)]
                ELSE [err |-> OK, status |-> proposal.status]

----------------------------------------------------------------------------
(* bounties.rs: the internal methods                                       *)

\* Contract::internal_add_bounty
internal_add_bounty(st, bounty) ==
    [st EXCEPT !.bounties = MapInsert(@, st.last_bounty_id, bounty),
               !.last_bounty_id = @ + 1]

\* Contract::internal_find_claim: the first index with that bounty, 0 for None
internal_find_claim(bounty_id, claims) ==
    LET idx == {i \in DOMAIN claims : claims[i].bounty_id = bounty_id} IN
    IF idx = {} THEN 0 ELSE CHOOSE i \in idx : \A j \in idx : i <= j

\* Contract::internal_get_claims: [err, claims, claim_idx]
internal_get_claims(st, id, sender_id) ==
    IF sender_id \notin DOMAIN st.bounty_claimers
    THEN [err |-> "ERR_NO_BOUNTY_CLAIMS", claims |-> <<>>, claim_idx |-> 0]
    ELSE LET claims == st.bounty_claimers[sender_id]
             claim_idx == internal_find_claim(id, claims)
         IN IF claim_idx = 0
            THEN [err |-> "ERR_NO_BOUNTY_CLAIM", claims |-> claims, claim_idx |-> 0]
            ELSE [err |-> OK, claims |-> claims, claim_idx |-> claim_idx]

\* Vec::remove
SeqRemove(s, i) == [j \in 1..(Len(s) - 1) |-> IF j < i THEN s[j] ELSE s[j + 1]]

\* where internal_remove_claim stores the shortened list
RemoveClaimKey(env, owner) == env.predecessor

\* Contract::internal_remove_claim.  owner is the account the list was read
\* from; the code writes the list back under env::predecessor_account_id().
\* The count is a u32: 0 - 1 panics in a build with overflow checks and wraps
\* in one without.
internal_remove_claim(st, env, id, claims, claim_idx, owner) ==
    LET rest == SeqRemove(claims, claim_idx)
        key == RemoveClaimKey(env, owner)
        st1 == [st EXCEPT !.bounty_claimers =
                    IF Len(rest) = 0 THEN MapRemove(@, key) ELSE MapInsert(@, key, rest)]
    IN IF id \notin DOMAIN st.bounty_claims_count THEN Fail(PANIC, st)
       ELSE IF st.bounty_claims_count[id] = 0 /\ env.overflow_checks THEN Fail(PANIC, st)
       ELSE Done([st1 EXCEPT !.bounty_claims_count[id] = IF @ = 0 THEN U32Max ELSE @ - 1])

\* Contract::internal_payout: the transfer is emitted; a bounty payout is
\* recorded by the caller below
internal_payout(st, token_id, receiver_id, amount) == st

\* Contract::internal_execute_bounty_payout
internal_execute_bounty_payout(st, env, id, receiver_id, success) ==
    IF id \notin DOMAIN st.bounties THEN Fail("ERR_NO_BOUNTY", st)
    ELSE
        LET bounty == st.bounties[id]
            c == internal_get_claims(st, id, receiver_id)
            r == internal_remove_claim(st, env, id, c.claims, c.claim_idx, receiver_id)
        IN IF c.err # OK THEN Fail(c.err, st)
           ELSE IF r.err # OK THEN Fail(r.err, st)
           ELSE IF success
           THEN LET st1 == internal_payout(r.st, bounty.token, receiver_id, bounty.amount)
                    st2 == [st1 EXCEPT !.payouts = Bump(@, <<id, receiver_id>>)]
                IN IF bounty.times = 0
                   THEN Done([st2 EXCEPT !.bounties = MapRemove(@, id)])
                   ELSE Done([st2 EXCEPT !.bounties[id].times = @ - 1])
           ELSE Done(r.st)

----------------------------------------------------------------------------
(* proposals.rs: Contract                                                  *)

\* the bond transfers of internal_execute_proposal and internal_reject_proposal:
\* one Promise::new(p.proposer).transfer(proposal_bond) for version v of proposal id
RefundBond(st, id, v) == [st EXCEPT !.refunds = Bump(@, <<id, v>>)]

RECURSIVE RefundAll(_, _, _)
RefundAll(st, id, n) ==
    IF n = 0 THEN st ELSE RefundBond(RefundAll(st, id, n - 1), id, n - 1)

\* the staking contract set without the assertion that none is set
set_staking_contract_unchecked(st, staking) ==
    Done([st EXCEPT !.staking_id = staking])

\* internal_execute_proposal, the arm Instruction::SetStakingContract
set_staking_contract(st, staking) ==
    IF st.staking_id # NoAccount THEN Fail("ERR_INVALID_STAKING_CHANGE", st)
    ELSE Done([st EXCEPT !.staking_id = staking])

\* one arm of the match in internal_execute_proposal; policy is the policy
\* handle_vote read before the vote
ExecuteInstruction(st, env, p, instr) ==
    CASE instr.tag = "ChangeConfig" -> Done([st EXCEPT !.config = instr.config])
      [] instr.tag = "ChangePolicy" -> Done([st EXCEPT !.policy = instr.policy])
      [] instr.tag = "AddMemberToRole" ->
            Done([st EXCEPT !.policy =
                    VCurrent(add_member_to_role(p, instr.role, instr.member_id))])
      [] instr.tag = "RemoveMemberFromRole" ->
            Done([st EXCEPT !.policy =
                    VCurrent(remove_member_from_role(p, instr.role, instr.member_id))])
      [] instr.tag = "FunctionCall" -> Done(st)
      [] instr.tag = "UpgradeSelf" -> Done(st)
      [] instr.tag = "UpgradeRemote" -> Done(st)
      [] instr.tag = "Transfer" ->
            Done(internal_payout(st, instr.token_id, instr.receiver_id, instr.amount))
      [] instr.tag = "SetStakingContract" -> set_staking_contract(st, instr.staking_id)
      [] instr.tag = "AddBounty" -> Done(internal_add_bounty(st, instr.bounty))
      [] instr.tag = "BountyDone" ->
            internal_execute_bounty_payout(st, env, instr.bounty_id, instr.receiver_id, TRUE)
      [] instr.tag = "Vote" -> Done(st)

RECURSIVE ExecuteFrom(_, _, _, _, _)
ExecuteFrom(st, env, p, instructions, i) ==
    IF i > Len(instructions) THEN Done(st)
    ELSE LET r == ExecuteInstruction(st, env, p, instructions[i]) IN
         IF r.err # OK THEN r ELSE ExecuteFrom(r.st, env, p, instructions, i + 1)

\* Contract::internal_execute_proposal
internal_execute_proposal(st, env, p, id, proposal, version) ==
    ExecuteFrom(RefundAll(st, id, Len(proposal.versions)), env, p, version.instructions, 1)

\* the BountyDone instructions of one version, rejected in order
RECURSIVE RejectFrom(_, _, _, _)
RejectFrom(st, env, instructions, i) ==
    IF i > Len(instructions) THEN Done(st)
    ELSE IF instructions[i].tag = "BountyDone"
    THEN LET r == internal_execute_bounty_payout(st, env, instructions[i].bounty_id,
                                                 instructions[i].receiver_id, FALSE)
         IN IF r.err # OK THEN r ELSE RejectFrom(r.st, env, instructions, i + 1)
    ELSE RejectFrom(st, env, instructions, i + 1)

RECURSIVE RejectVersions(_, _, _, _, _)
RejectVersions(st, env, id, proposal, v) ==
    IF v >= Len(proposal.versions) THEN Done(st)
    ELSE LET r == RejectFrom(RefundBond(st, id, v), env, proposal.versions[v + 1].instructions, 1)
         IN IF r.err # OK THEN r ELSE RejectVersions(r.st, env, id, proposal, v + 1)

\* Contract::internal_reject_proposal
internal_reject_proposal(st, env, p, id, proposal) ==
    RejectVersions(st, env, id, proposal, 0)

\* every instruction set taken as valid
is_valid_instruction_set_always(instructions) == TRUE

\* Contract::is_valid_instruction_set
is_valid_instruction_set(instructions) ==
    Len(instructions) > 1 =>
        \A i \in DOMAIN instructions :
            instructions[i].tag \notin {"SetStakingContract", "UpgradeSelf", "Vote", "BountyDone"}

\* Contract::internal_check_proposal: [err, kind]
internal_check_proposal(st, env, instructions) ==
    IF st.policy.version # "Current" THEN [err |-> PANIC, kind |-> ""]
    ELSE
        LET p == st.policy.policy
            kind == match_proposal_kind(p, instructions)
        IN
        IF ~(env.attached_deposit >= p.proposal_bond) THEN [err |-> "ERR_MIN_BOND", kind |-> ""]
        ELSE IF ~(Len(instructions) > 0) THEN [err |-> "ERR_EMPTY_INSTRUCTION_SET", kind |-> ""]
        ELSE IF ~is_valid_instruction_set(instructions)
        THEN [err |-> "ERR_INVALID_INSTRUCTION_SET", kind |-> ""]
        ELSE IF instructions[1].tag = "SetStakingContract" /\ st.staking_id # NoAccount
        THEN [err |-> "ERR_STAKING_CONTRACT_CANT_CHANGE", kind |-> ""]
        ELSE IF ~can_execute_action(p, internal_user_info(env), kind, "AddProposal")
        THEN [err |-> "ERR_PERMISSION_DENIED", kind |-> ""]
        ELSE [err |-> OK, kind |-> kind]

\* the Proposal that propose stores
NewProposal(env, kind, description, instructions) ==
    [kind |-> kind,
     versions |-> << [proposer |-> env.predecessor, description |-> description,
                      instructions |-> instructions] >>,
     status |-> InProgress,
     approve_count |-> <<0>>,
     reject_count |-> 0,
     remove_count |-> <<0>>,
     remove_flag |-> <<FALSE>>,
     votes |-> Empty,
     remove_votes |-> {},
     submission_time |-> env.block_timestamp]

\* propose taking the lowest id not in use
propose_lowest_free(st, env, description, instructions) ==
    LET c == internal_check_proposal(st, env, instructions)
        id == CHOOSE n \in 0..st.last_proposal_id :
                  /\ n \notin DOMAIN st.proposals
                  /\ \A m \in 0..(n - 1) : m \in DOMAIN st.proposals
    IN IF c.err # OK THEN [err |-> c.err, st |-> st, id |-> id]
       ELSE [err |-> OK,
             st |-> [st EXCEPT
                       !.proposals = MapInsert(@, id, NewProposal(env, c.kind, description,
                                                                  instructions)),
                       !.last_proposal_id = @ + 1],
             id |-> id]

\* Contract::propose: [err, st, id]
propose(st, env, description, instructions) ==
    LET c == internal_check_proposal(st, env, instructions)
        id == st.last_proposal_id
    IN IF c.err # OK THEN [err |-> c.err, st |-> st, id |-> id]
       ELSE [err |-> OK,
             st |-> [st EXCEPT
                       !.proposals = MapInsert(@, id, NewProposal(env, c.kind, description,
                                                                  instructions)),
                       !.last_proposal_id = @ + 1],
             id |-> id]

\* a version pushed without its remove_flag entry
PushVersionNoFlag(p, version) ==
    [p EXCEPT !.versions = Append(@, version),
              !.approve_count = Append(@, 0),
              !.remove_count = Append(@, 0)]

\* counter_propose: the new version and its entries in the per-version vectors
PushVersion(p, version) ==
    [p EXCEPT !.versions = Append(@, version),
              !.approve_count = Append(@, 0),
              !.remove_count = Append(@, 0),
              !.remove_flag = Append(@, FALSE)]

\* counter_propose without the comparison of the kinds
counter_propose_any_kind(st, env, id, description, instructions) ==
    IF id \notin DOMAIN st.proposals
    THEN [err |-> "ERR_NO_PROPOSAL", st |-> st, version |-> 0]
    ELSE
        LET p == st.proposals[id]
            c == internal_check_proposal(st, env, instructions)
            p1 == PushVersion(p, [proposer |-> env.predecessor,
                                  description |-> description,
                                  instructions |-> instructions])
        IN IF c.err # OK THEN [err |-> c.err, st |-> st, version |-> 0]
           ELSE [err |-> OK, st |-> [st EXCEPT !.proposals[id] = p1],
                 version |-> Len(p1.versions) - 1]

\* Contract::counter_propose: [err, st, version]
counter_propose(st, env, id, description, instructions) ==
    IF id \notin DOMAIN st.proposals
    THEN [err |-> "ERR_NO_PROPOSAL", st |-> st, version |-> 0]
    ELSE
        LET p == st.proposals[id]
            c == internal_check_proposal(st, env, instructions)
            p1 == PushVersion(p, [proposer |-> env.predecessor,
                                  description |-> description,
                                  instructions |-> instructions])
        IN IF c.err # OK THEN [err |-> c.err, st |-> st, version |-> 0]
           ELSE IF c.kind # p.kind
           THEN [err |-> "ERR_DIFFERENT_PROPOSAL_KIND", st |-> st, version |-> 0]
           ELSE [err |-> OK, st |-> [st EXCEPT !.proposals[id] = p1],
                 version |-> Len(p1.versions) - 1]

\* handle_vote without its permission check
handle_vote_unpermitted(st, env, id, choice) ==
    IF id \notin DOMAIN st.proposals THEN Fail("ERR_NO_PROPOSAL", st)
    ELSE IF st.policy.version # "Current" THEN Fail(PANIC, st)
    ELSE
        LET proposal == st.proposals[id]
            p == st.policy.policy
            action == IF choice = 0 THEN "VoteReject" ELSE "VoteApprove"
            vote_policy == get_vote_policy(p, proposal.kind)
            cv == create_vote(proposal, vote_policy, choice, env.user_weight)
            t == get_threshold(p, vote_policy, env.total_delegation_amount, proposal.kind)
            u == update_votes(proposal, env.predecessor, cv.vote, t.val)
            voted == [u.proposal EXCEPT !.status = u.status]
            x == IF u.status.type = "Approved"
                 THEN internal_execute_proposal(st, env, p, id, voted,
                                                voted.versions[u.status.version + 1])
                 ELSE IF u.status.type = "Rejected"
                 THEN internal_reject_proposal(st, env, p, id, voted)
                 ELSE Done(st)
        IN
        IF ~(choice <= Len(proposal.versions)) THEN Fail("ERR_INVALID_CHOICE", st)
        ELSE IF proposal.status # InProgress THEN Fail("ERR_PROPOSAL_NOT_IN_PROGRESS", st)
        ELSE IF cv.err # OK THEN Fail(cv.err, st)
        ELSE IF t.err # OK THEN Fail(t.err, st)
        ELSE IF u.err # OK THEN Fail(u.err, st)
        ELSE IF x.err # OK THEN Fail(x.err, st)
        ELSE Done([x.st EXCEPT !.proposals = MapInsert(@, id, voted)])

\* Contract::handle_vote
handle_vote(st, env, id, choice) ==
    IF id \notin DOMAIN st.proposals THEN Fail("ERR_NO_PROPOSAL", st)
    ELSE IF st.policy.version # "Current" THEN Fail(PANIC, st)
    ELSE
        LET proposal == st.proposals[id]
            p == st.policy.policy
            action == IF choice = 0 THEN "VoteReject" ELSE "VoteApprove"
            vote_policy == get_vote_policy(p, proposal.kind)
            cv == create_vote(proposal, vote_policy, choice, env.user_weight)
            t == get_threshold(p, vote_policy, env.total_delegation_amount, proposal.kind)
            u == update_votes(proposal, env.predecessor, cv.vote, t.val)
            voted == [u.proposal EXCEPT !.status = u.status]
            x == IF u.status.type = "Approved"
                 THEN internal_execute_proposal(st, env, p, id, voted,
                                                voted.versions[u.status.version + 1])
                 ELSE IF u.status.type = "Rejected"
                 THEN internal_reject_proposal(st, env, p, id, voted)
                 ELSE Done(st)
        IN
        IF ~(choice <= Len(proposal.versions)) THEN Fail("ERR_INVALID_CHOICE", st)
        ELSE IF ~can_execute_action(p, internal_user_info(env), proposal.kind, action)
        THEN Fail("ERR_PERMISSION_DENIED", st)
        ELSE IF proposal.status # InProgress THEN Fail("ERR_PROPOSAL_NOT_IN_PROGRESS", st)
        ELSE IF cv.err # OK THEN Fail(cv.err, st)
        ELSE IF t.err # OK THEN Fail(t.err, st)
        ELSE IF u.err # OK THEN Fail(u.err, st)
        ELSE IF x.err # OK THEN Fail(x.err, st)
        ELSE Done([x.st EXCEPT !.proposals = MapInsert(@, id, voted)])

\* Contract::approve.  version is a u8: 255 + 1 panics in a build with
\* overflow checks and wraps to 0, the reject choice, in one without.
approve(st, env, id, version) ==
    IF version + 1 > 255
    THEN IF env.overflow_checks THEN Fail(PANIC, st) ELSE handle_vote(st, env, id, 0)
    ELSE handle_vote(st, env, id, version + 1)

\* Contract::reject
reject(st, env, id) == handle_vote(st, env, id, 0)

\* withdraw open to accounts other than the proposer
withdraw_by_anyone(st, env, id, version) ==
    IF id \notin DOMAIN st.proposals THEN Fail("ERR_NO_PROPOSAL", st)
    ELSE IF st.policy.version # "Current" THEN Fail(PANIC, st)
    ELSE
        LET proposal == st.proposals[id]
            p == st.policy.policy
        IN
        IF ~can_execute_action(p, internal_user_info(env), proposal.kind, "WithdrawProposal")
        THEN Fail("ERR_PERMISSION_DENIED", st)
        ELSE IF proposal.status # InProgress THEN Fail("ERR_PROPOSAL_NOT_IN_PROGRESS", st)
        ELSE IF ~(version < Len(proposal.versions)) THEN Fail("ERR_NO_PROPOSAL_VERSION", st)
        ELSE IF proposal.remove_flag[version + 1] THEN Fail("ERR_ALREADY_REMOVED", st)
        ELSE IF proposal.approve_count[version + 1] # 0 THEN Fail("ERR_VOTING_BEGUN", st)
        ELSE IF proposal.remove_count[version + 1] # 0 THEN Fail("ERR_VOTING_BEGUN", st)
        ELSE Done([st EXCEPT !.proposals[id].remove_flag[version + 1] = TRUE])

\* Contract::withdraw
withdraw(st, env, id, version) ==
    IF id \notin DOMAIN st.proposals THEN Fail("ERR_NO_PROPOSAL", st)
    ELSE IF st.policy.version # "Current" THEN Fail(PANIC, st)
    ELSE
        LET proposal == st.proposals[id]
            p == st.policy.policy
        IN
        IF ~can_execute_action(p, internal_user_info(env), proposal.kind, "WithdrawProposal")
        THEN Fail("ERR_PERMISSION_DENIED", st)
        ELSE IF proposal.status # InProgress THEN Fail("ERR_PROPOSAL_NOT_IN_PROGRESS", st)
        ELSE IF ~(version < Len(proposal.versions)) THEN Fail("ERR_NO_PROPOSAL_VERSION", st)
        ELSE IF proposal.remove_flag[version + 1] THEN Fail("ERR_ALREADY_REMOVED", st)
        ELSE IF proposal.versions[version + 1].proposer # env.predecessor
        THEN Fail("ERR_UNAUTHORIZED_WITHDRAW", st)
        ELSE IF proposal.approve_count[version + 1] # 0 THEN Fail("ERR_VOTING_BEGUN", st)
        ELSE IF proposal.remove_count[version + 1] # 0 THEN Fail("ERR_VOTING_BEGUN", st)
        ELSE Done([st EXCEPT !.proposals[id].remove_flag[version + 1] = TRUE])

\* Contract::veto.  The right-hand side update_remove_votes runs before the
\* indexing of remove_flag, and its result overwrites the flag.
veto(st, env, id, version) ==
    IF id \notin DOMAIN st.proposals THEN Fail("ERR_NO_PROPOSAL", st)
    ELSE IF st.policy.version # "Current" THEN Fail(PANIC, st)
    ELSE
        LET proposal == st.proposals[id]
            p == st.policy.policy
            vote_policy == get_vote_policy(p, proposal.kind)
            t == get_threshold(p, vote_policy, env.total_delegation_amount, proposal.kind)
            removeVote == [account_id |-> env.predecessor, version |-> version]
            u == update_remove_votes(proposal, removeVote, env.user_weight, t.val)
        IN
        IF ~can_execute_action(p, internal_user_info(env), proposal.kind, "VoteRemove")
        THEN Fail("ERR_PERMISSION_DENIED", st)
        ELSE IF proposal.status # InProgress THEN Fail("ERR_PROPOSAL_NOT_IN_PROGRESS", st)
        ELSE IF t.err # OK THEN Fail(t.err, st)
        ELSE IF u.err # OK THEN Fail(u.err, st)
        ELSE Done([st EXCEPT !.proposals[id] =
                      [u.proposal EXCEPT !.remove_flag[version + 1] = u.flag]])

\* remove without its status check
remove_any_status(st, env, id) ==
    IF id \notin DOMAIN st.proposals THEN Fail("ERR_NO_PROPOSAL", st)
    ELSE IF st.policy.version # "Current" THEN Fail(PANIC, st)
    ELSE
        LET proposal == st.proposals[id]
            p == st.policy.policy
        IN
        IF ~can_execute_action(p, internal_user_info(env), proposal.kind, "RemoveProposal")
        THEN Fail("ERR_PERMISSION_DENIED", st)
        ELSE Done([st EXCEPT !.proposals = MapRemove(@, id)])

\* Contract::remove
remove(st, env, id) ==
    IF id \notin DOMAIN st.proposals THEN Fail("ERR_NO_PROPOSAL", st)
    ELSE IF st.policy.version # "Current" THEN Fail(PANIC, st)
    ELSE
        LET proposal == st.proposals[id]
            p == st.policy.policy
        IN
        IF ~can_execute_action(p, internal_user_info(env), proposal.kind, "RemoveProposal")
        THEN Fail("ERR_PERMISSION_DENIED", st)
        ELSE IF proposal.status # InProgress THEN Fail("ERR_PROPOSAL_NOT_IN_PROGRESS", st)
        ELSE Done([st EXCEPT !.proposals = MapRemove(@, id)])

\* what finalize writes back to self.proposals: the code ends without an insert
FinalizeStore(st, id, proposal) == st

\* Contract::finalize
finalize(st, env, id) ==
    IF id \notin DOMAIN st.proposals THEN Fail("ERR_NO_PROPOSAL", st)
    ELSE IF st.policy.version # "Current" THEN Fail(PANIC, st)
    ELSE
        LET proposal == st.proposals[id]
            p == st.policy.policy
            s == proposal_status(p, proposal, env.total_delegation_amount, env.block_timestamp)
            expired == [proposal EXCEPT !.status = s.status]
            x == internal_reject_proposal(st, env, p, id, expired)
        IN
        IF ~can_execute_action(p, internal_user_info(env), proposal.kind, "Finalize")
        THEN Fail("ERR_PERMISSION_DENIED", st)
        ELSE IF proposal.status # InProgress THEN Fail("ERR_PROPOSAL_NOT_IN_PROGRESS", st)
        ELSE IF s.err # OK THEN Fail(s.err, st)
        ELSE IF s.status # Expired THEN Fail("ERR_PROPOSAL_NOT_EXPIRED", st)
        ELSE IF x.err # OK THEN Fail(x.err, st)
        ELSE Done(FinalizeStore(x.st, id, expired))

\* amend without the comparison of the kinds
amend_any_kind(st, env, id, version, description, instructions) ==
    IF env.attached_deposit # 0 THEN Fail(PANIC, st)
    ELSE IF id \notin DOMAIN st.proposals THEN Fail("ERR_NO_PROPOSAL", st)
    ELSE IF st.policy.version # "Current" THEN Fail(PANIC, st)
    ELSE
        LET proposal == st.proposals[id]
            p == st.policy.policy
            c == internal_check_proposal(st, env, instructions)
        IN
        IF ~can_execute_action(p, internal_user_info(env), proposal.kind, "AmendProposal")
        THEN Fail("ERR_PERMISSION_DENIED", st)
        ELSE IF proposal.status # InProgress THEN Fail("ERR_PROPOSAL_NOT_IN_PROGRESS", st)
        ELSE IF c.err # OK THEN Fail(c.err, st)
        ELSE IF ~(version < Len(proposal.versions)) THEN Fail("ERR_NO_PROPOSAL_VERSION", st)
        ELSE IF proposal.versions[version + 1].proposer # env.predecessor
        THEN Fail("ERR_UNAUTHORIZED_AMEND", st)
        ELSE IF proposal.approve_count[version + 1] # 0 THEN Fail("ERR_VOTING_BEGUN", st)
        ELSE IF proposal.remove_count[version + 1] # 0 THEN Fail("ERR_VOTING_BEGUN", st)
        ELSE Done([st EXCEPT !.proposals[id].versions[version + 1] =
                      [proposer |-> env.predecessor, description |-> description,
                       instructions |-> instructions]])

\* Contract::amend.  The method carries no #[payable]: the entry point that
\* near_bindgen generates panics on any attached deposit before the body runs.
amend(st, env, id, version, description, instructions) ==
    IF env.attached_deposit # 0 THEN Fail(PANIC, st)
    ELSE IF id \notin DOMAIN st.proposals THEN Fail("ERR_NO_PROPOSAL", st)
    ELSE IF st.policy.version # "Current" THEN Fail(PANIC, st)
    ELSE
        LET proposal == st.proposals[id]
            p == st.policy.policy
            c == internal_check_proposal(st, env, instructions)
        IN
        IF ~can_execute_action(p, internal_user_info(env), proposal.kind, "AmendProposal")
        THEN Fail("ERR_PERMISSION_DENIED", st)
        ELSE IF proposal.status # InProgress THEN Fail("ERR_PROPOSAL_NOT_IN_PROGRESS", st)
        ELSE IF c.err # OK THEN Fail(c.err, st)
        ELSE IF c.kind # proposal.kind THEN Fail("ERR_DIFFERENT_PROPOSAL_KIND", st)
        ELSE IF ~(version < Len(proposal.versions)) THEN Fail("ERR_NO_PROPOSAL_VERSION", st)
        ELSE IF proposal.versions[version + 1].proposer # env.predecessor
        THEN Fail("ERR_UNAUTHORIZED_AMEND", st)
        ELSE IF proposal.approve_count[version + 1] # 0 THEN Fail("ERR_VOTING_BEGUN", st)
        ELSE IF proposal.remove_count[version + 1] # 0 THEN Fail("ERR_VOTING_BEGUN", st)
        ELSE Done([st EXCEPT !.proposals[id].versions[version + 1] =
                      [proposer |-> env.predecessor, description |-> description,
                       instructions |-> instructions]])

----------------------------------------------------------------------------
(* bounties.rs: the public methods                                         *)

\* Contract::bounty_claim
bounty_claim(st, env, id, deadline) ==
    IF id \notin DOMAIN st.bounties THEN Fail("ERR_NO_BOUNTY", st)
    ELSE IF st.policy.version # "Current" THEN Fail(PANIC, st)
    ELSE
        LET bounty == st.bounties[id]
            p == st.policy.policy
            claims_count == Count(st.bounty_claims_count, id)
            claims == IF env.predecessor \in DOMAIN st.bounty_claimers
                      THEN st.bounty_claimers[env.predecessor] ELSE <<>>
            claim == [bounty_id |-> id, start_time |-> env.block_timestamp,
                      deadline |-> deadline, completed |-> FALSE]
        IN
        IF env.attached_deposit # p.bounty_bond THEN Fail("ERR_BOUNTY_WRONG_BOND", st)
        ELSE IF ~(claims_count < bounty.times) THEN Fail("ERR_BOUNTY_ALL_CLAIMED", st)
        ELSE IF ~(deadline <= bounty.max_deadline) THEN Fail("ERR_BOUNTY_WRONG_DEADLINE", st)
        ELSE Done([st EXCEPT
                     !.bounty_claims_count = MapInsert(@, id, claims_count + 1),
                     !.bounty_claimers = MapInsert(@, env.predecessor, Append(claims, claim)),
                     !.claims_made = Bump(@, <<id, env.predecessor>>)])

\* Contract::bounty_done; account_id = NoAccount is None.  The method carries
\* no #[payable], so its entry point panics on any attached deposit, and the
\* propose it calls asks for the proposal bond.
bounty_done(st, env, id, account_id, description) ==
    LET sender_id == IF account_id = NoAccount THEN env.predecessor ELSE account_id
        c == internal_get_claims(st, id, sender_id)
    IN
    IF env.attached_deposit # 0 THEN Fail(PANIC, st)
    ELSE IF c.err # OK THEN Fail(c.err, st)
    ELSE IF c.claims[c.claim_idx].completed THEN Fail("ERR_BOUNTY_CLAIM_COMPLETED", st)
    ELSE IF env.block_timestamp > c.claims[c.claim_idx].start_time + c.claims[c.claim_idx].deadline
    THEN internal_remove_claim(st, env, id, c.claims, c.claim_idx, sender_id)
    ELSE IF sender_id # env.predecessor THEN Fail("ERR_BOUNTY_DONE_MUST_BE_SELF", st)
    ELSE
        LET pr == propose(st, env, description,
                          << [tag |-> "BountyDone", bounty_id |-> id,
                              receiver_id |-> sender_id] >>)
            claims == [c.claims EXCEPT ![c.claim_idx].completed = TRUE]
        IN IF pr.err # OK THEN Fail(pr.err, st)
           ELSE Done([pr.st EXCEPT !.bounty_claimers = MapInsert(@, sender_id, claims)])

\* Contract::bounty_giveup
bounty_giveup(st, env, id) ==
    IF st.policy.version # "Current" THEN Fail(PANIC, st)
    ELSE
        LET p == st.policy.policy
            c == internal_get_claims(st, id, env.predecessor)
            forgiven == ~(env.block_timestamp - c.claims[c.claim_idx].start_time
                            > p.bounty_forgiveness_period)
            r == internal_remove_claim(st, env, id, c.claims, c.claim_idx, env.predecessor)
        IN IF c.err # OK THEN Fail(c.err, st)
           ELSE IF r.err # OK THEN Fail(r.err, st)
           ELSE IF forgiven
           THEN Done([r.st EXCEPT !.bond_returns = Bump(@, env.predecessor)])
           ELSE Done(r.st)

----------------------------------------------------------------------------
(* The state machine: one action per public method.  A call that aborts    *)
(* leaves every variable as it was.  The inputs are drawn from the sets    *)
(* below; the clock is env::block_timestamp(), advanced by Tick.           *)

Accounts == {"a", "b", "c"}
\* the council Contract::new is given
Council == {"a", "b"}
\* the versions a call may name: one more than a proposal can hold
Versions == 0..MaxVersions
Descriptions == {"d"}
Deposits == {0, DefaultBond}
\* the caller's delegated weight and the total delegated, as the staking
\* oracle reports them: nothing is staked
NoWeight == 0
TotalDelegation == 0

Transfer == [tag |-> "Transfer", token_id |-> "near", receiver_id |-> "c", amount |-> 1]
Vote == [tag |-> "Vote"]
\* the instruction lists a caller submits: empty, valid, and invalid (Vote is
\* standalone-only)
InstructionSets == { <<>>, <<Transfer>>, <<Transfer, Vote>> }
\* the accounts that create proposals and versions: a council member and an outsider
Proposers == {"a", "c"}

\* default_policy(Council) with the permissions it leaves out: the proposer-only
\* withdraw and amend open to all, remove to the council
OpenPolicy ==
    [default_policy(Council) EXCEPT
        !.roles[1].permissions = @ \cup {"*:WithdrawProposal", "*:AmendProposal"},
        !.roles[2].permissions = @ \cup {"*:RemoveProposal"}]
\* the weight the staking oracle reports for a caller of veto
VetoWeights == {1}

\* the bounty an AddBounty instruction adds, and the deadlines a claim names
TheBounty == [token |-> "near", amount |-> 1, times |-> 2, max_deadline |-> 0]
AddBounty == [tag |-> "AddBounty", bounty |-> TheBounty]
Deadlines == {0, 1}
Workers == {"a", "b"}

\* the proposals that name a staking contract
SetStaking(staking) == [tag |-> "SetStakingContract", staking_id |-> staking]
StakingSets == { <<SetStaking("s1")>> }
StakingCounters == { <<SetStaking("s2")>> }

\* the instructions that must stand alone, and lists of two that hold one
Standalone == { SetStaking("s1"), [tag |-> "UpgradeSelf", hash |-> "h"], Vote,
                [tag |-> "BountyDone", bounty_id |-> 0, receiver_id |-> "c"] }
InvalidSets == { <<Transfer, x>> : x \in Standalone } \cup { <<x, Transfer>> : x \in Standalone }

\* the proposals that change the policy and its roles
AddMember(member) == [tag |-> "AddMemberToRole", member_id |-> member, role |-> "council"]
NextPolicy == VCurrent([default_policy({"a"}) EXCEPT !.proposal_period = 2])
ChangePolicy == [tag |-> "ChangePolicy", policy |-> NextPolicy]
ChangeConfig == [tag |-> "ChangeConfig", config |-> "c1"]
MemberSets == { <<AddMember("b"), AddMember("c")>>,
                <<ChangePolicy, AddMember("c")>>,
                <<ChangeConfig, ChangePolicy>> }

\* the policy test_multi_council installs
MultiAccounts == {"a", "b", "c", "d"}
MultiPolicy ==
    [default_policy({}) EXCEPT
        !.roles = <<
            [name |-> "all", kind |-> Everyone, permissions |-> {"*:AddProposal"}],
            [name |-> "council", kind |-> Group({"a", "b"}), permissions |-> {"*:*"}],
            [name |-> "community", kind |-> Group({"a", "c", "d"}),
             permissions |-> {"*:*"}] >>]

\* OpenPolicy with no proposal bond and two proposal kinds: with a bond,
\* amend, which takes no deposit, cannot pass internal_check_proposal
KindPolicy ==
    [OpenPolicy EXCEPT
        !.proposal_bond = 0,
        !.proposal_kinds = <<
            [name |-> "transfer", required_instrs |-> {to_enum(Transfer)},
             vote_policy |-> DefaultVotePolicy],
            [name |-> "config", required_instrs |-> {to_enum(ChangeConfig)},
             vote_policy |-> DefaultVotePolicy] >>]
\* the instruction lists proposed under it, of kind "transfer", "config" and
\* "" (Vote), with the empty list and a list Vote may not be part of, and
\* the lists amend puts in their place, the first of kind "transfer"
KindSets == { <<>>, <<Transfer>>, <<ChangeConfig>>, <<Vote>>, <<Transfer, Vote>> }
KindAmendments == { <<Transfer, ChangeConfig>>, <<Vote>>, <<>> }

\* KindPolicy with its kinds changed: "config" comes first and the kind that
\* asks for Transfer has another name; and the instruction that installs it
ChangedKindPolicy ==
    [KindPolicy EXCEPT
        !.proposal_kinds = <<
            [name |-> "config", required_instrs |-> {to_enum(ChangeConfig)},
             vote_policy |-> DefaultVotePolicy],
            [name |-> "payment", required_instrs |-> {to_enum(Transfer)},
             vote_policy |-> DefaultVotePolicy] >>]
ChangeKinds == [tag |-> "ChangePolicy", policy |-> VCurrent(ChangedKindPolicy)]

\* the vote policies get_threshold is asked about, the totals the staking
\* oracle reports and the weights it reports for a voter
Thresholds == { Ratio(n, d) : n \in 0..2, d \in 0..2 } \cup { Weight(w) : w \in {0, 2, 100} }
Quorums == {0, 1, 4}
VotePolicies == [weight_kind : {"TokenWeight", "RoleWeight"}, quorum : Quorums,
                 threshold : Thresholds]
Totals == 0..MaxTotal
StakeWeights == {1, 2}

\* the model's bounds, as a condition on the state a call commits
WithinBounds(st, maxp) ==
    /\ st.last_proposal_id <= maxp
    /\ st.last_bounty_id <= MaxBounties
    /\ \A id \in DOMAIN st.proposals : Len(st.proposals[id].versions) <= MaxVersions
    /\ \A k \in DOMAIN st.refunds : st.refunds[k] <= MaxRefunds
    /\ \A k \in DOMAIN st.bond_returns : st.bond_returns[k] <= MaxBondReturns
    /\ \A k \in DOMAIN st.bounty_claimers : Len(st.bounty_claimers[k]) <= MaxClaims
    /\ \A k \in DOMAIN st.claims_made : st.claims_made[k] <= MaxClaimCalls
    \* a count that wrapped below zero is followed no further down
    /\ \A k \in DOMAIN st.bounty_claims_count :
          st.bounty_claims_count[k] <= MaxCount \/ st.bounty_claims_count[k] = U32Max

Commit(st) ==
    /\ config' = st.config
    /\ policy' = st.policy
    /\ staking_id' = st.staking_id
    /\ proposals' = st.proposals
    /\ last_proposal_id' = st.last_proposal_id
    /\ bounties' = st.bounties
    /\ last_bounty_id' = st.last_bounty_id
    /\ bounty_claims_count' = st.bounty_claims_count
    /\ bounty_claimers' = st.bounty_claimers
    /\ refunds' = st.refunds
    /\ payouts' = st.payouts
    /\ bond_returns' = st.bond_returns
    /\ claims_made' = st.claims_made

\* the call's outcome r takes effect: its state when it returned, none when it aborted
Call(r, maxp) ==
    /\ r.err = OK => WithinBounds(r.st, maxp)
    /\ Commit(IF r.err = OK THEN r.st ELSE State)
    /\ UNCHANGED <<now, overflow_checks>>

\* the state Contract::new(config, policy) leaves, with the policy upgraded
InitWith(vp) ==
    /\ config = "c0"
    /\ policy = upgrade(vp)
    /\ staking_id = NoAccount
    /\ proposals = Empty
    /\ last_proposal_id = 0
    /\ bounties = Empty
    /\ last_bounty_id = 0
    /\ bounty_claims_count = Empty
    /\ bounty_claimers = Empty
    /\ refunds = Empty
    /\ payouts = Empty
    /\ bond_returns = Empty
    /\ claims_made = Empty
    /\ now = 0

\* the proposal ids and bounty ids a call may name: one more than exist
Ids(maxp) == 0..maxp
BountyIds == 0..MaxBounties

Propose(callers, isets, maxp) ==
    \E caller \in callers, deposit \in Deposits, d \in Descriptions, instructions \in isets :
        Call(propose(State, Env(caller, deposit, NoWeight, TotalDelegation), d, instructions),
             maxp)

CounterPropose(callers, isets, maxp) ==
    \E caller \in callers, deposit \in Deposits, id \in Ids(maxp),
       d \in Descriptions, instructions \in isets :
        Call(counter_propose(State, Env(caller, deposit, NoWeight, TotalDelegation), id, d,
                             instructions), maxp)

Approve(callers, maxp) ==
    \E caller \in callers, id \in Ids(maxp), version \in Versions :
        Call(approve(State, Env(caller, 0, NoWeight, TotalDelegation), id, version), maxp)

\* approve where the staking oracle reports a weight and a total
ApproveStaked(callers, weights, totals, maxp) ==
    \E caller \in callers, w \in weights, total \in totals, id \in Ids(maxp),
       version \in Versions :
        Call(approve(State, Env(caller, 0, w, total), id, version), maxp)

Reject(callers, maxp) ==
    \E caller \in callers, id \in Ids(maxp) :
        Call(reject(State, Env(caller, 0, NoWeight, TotalDelegation), id), maxp)

Withdraw(callers, maxp) ==
    \E caller \in callers, id \in Ids(maxp), version \in Versions :
        Call(withdraw(State, Env(caller, 0, NoWeight, TotalDelegation), id, version), maxp)

Veto(callers, weights, maxp) ==
    \E caller \in callers, w \in weights, id \in Ids(maxp), version \in Versions :
        Call(veto(State, Env(caller, 0, w, TotalDelegation), id, version), maxp)

Remove(callers, maxp) ==
    \E caller \in callers, id \in Ids(maxp) :
        Call(remove(State, Env(caller, 0, NoWeight, TotalDelegation), id), maxp)

Finalize(callers, maxp) ==
    \E caller \in callers, id \in Ids(maxp) :
        Call(finalize(State, Env(caller, 0, NoWeight, TotalDelegation), id), maxp)

Amend(callers, isets, maxp) ==
    \E caller \in callers, deposit \in Deposits, id \in Ids(maxp),
       version \in Versions, d \in Descriptions, instructions \in isets :
        Call(amend(State, Env(caller, deposit, NoWeight, TotalDelegation), id, version, d,
                   instructions), maxp)

BountyClaim(callers, deadlines, maxp) ==
    \E caller \in callers, deposit \in Deposits, id \in BountyIds, deadline \in deadlines :
        Call(bounty_claim(State, Env(caller, deposit, NoWeight, TotalDelegation), id, deadline),
             maxp)

BountyDone(callers, maxp) ==
    \E caller \in callers, deposit \in Deposits, id \in BountyIds,
       who \in callers \cup {NoAccount}, d \in Descriptions :
        Call(bounty_done(State, Env(caller, deposit, NoWeight, TotalDelegation), id, who, d),
             maxp)

BountyGiveup(callers, maxp) ==
    \E caller \in callers, id \in BountyIds :
        Call(bounty_giveup(State, Env(caller, 0, NoWeight, TotalDelegation), id), maxp)

Tick ==
    /\ now < MaxTime
    /\ now' = now + 1
    /\ UNCHANGED <<config, policy, staking_id, proposals, last_proposal_id, bounties,
                   last_bounty_id, bounty_claims_count, bounty_claimers, refunds, payouts,
                   bond_returns, claims_made, overflow_checks>>

----------------------------------------------------------------------------
(* Spec: the proposal state machine under the default policy with a        *)
(* council of two, the methods that policy permits.  No bounty exists, and *)
(* no arithmetic these calls reach depends on the build's overflow         *)
(* behaviour.                                                              *)

Init ==
    /\ InitWith(VDefault(Council))
    /\ overflow_checks = TRUE

Next ==
    \/ Propose(Proposers, InstructionSets, MaxProposals)
    \/ CounterPropose(Proposers, InstructionSets, MaxProposals)
    \/ Approve(Accounts, MaxProposals)
    \/ Reject(Accounts, MaxProposals)
    \/ Veto(Accounts, VetoWeights, MaxProposals)
    \/ Finalize(Accounts, MaxProposals)
    \/ Tick

Spec == Init /\ [][Next]_vars

(* SpecOpen: the same with the policy that also permits withdraw and       *)
(* remove.  amend stays out: it takes no deposit, and the bond is asked.   *)

InitOpen ==
    /\ InitWith(VCurrent(OpenPolicy))
    /\ overflow_checks = TRUE

NextOpen ==
    \/ Propose(Proposers, InstructionSets, MaxProposals)
    \/ CounterPropose(Proposers, InstructionSets, MaxProposals)
    \/ Approve(Accounts, MaxProposals)
    \/ Reject(Accounts, MaxProposals)
    \/ Withdraw(Accounts, MaxProposals)
    \/ Veto({"b"}, VetoWeights, MaxProposals)
    \/ Remove(Accounts, MaxProposals)
    \/ Finalize(Accounts, MaxProposals)
    \/ Tick

SpecOpen == InitOpen /\ [][NextOpen]_vars

(* SpecBounty: the bounty lifecycle under the default policy with a        *)
(* council of one (a), a worker outside it (b), in both builds.  The       *)
(* policy asks no proposal bond: bounty_done takes no deposit, and with a  *)
(* bond the propose inside it stops at ERR_MIN_BOND.                       *)

InitBounty ==
    /\ InitWith(VCurrent([default_policy({"a"}) EXCEPT !.proposal_bond = 0]))
    /\ overflow_checks \in BOOLEAN

NextBounty ==
    \/ Propose({"a"}, {<<AddBounty>>}, MaxBountyProposals)
    \/ Approve({"a"}, MaxBountyProposals)
    \/ Finalize({"a"}, MaxBountyProposals)
    \/ BountyClaim(Workers, Deadlines, MaxBountyProposals)
    \/ BountyDone(Workers, MaxBountyProposals)
    \/ BountyGiveup(Workers, MaxBountyProposals)
    \/ Tick

SpecBounty == InitBounty /\ [][NextBounty]_vars

(* SpecStaking: proposals that set the staking contract, under the default *)
(* policy with a council of two.                                           *)

InitStaking ==
    /\ InitWith(VDefault(Council))
    /\ overflow_checks = TRUE

NextStaking ==
    \/ Propose({"c"}, StakingSets, MaxStakingProposals)
    \/ CounterPropose({"a"}, StakingCounters, MaxStakingProposals)
    \/ Approve(Accounts, MaxStakingProposals)
    \/ Finalize({"a"}, MaxStakingProposals)
    \/ Tick

SpecStaking == InitStaking /\ [][NextStaking]_vars

(* SpecMembers: proposals of several instructions that change the config,  *)
(* the policy and the council, under the default policy with a council of  *)
(* one.                                                                    *)

InitMembers ==
    /\ InitWith(VDefault({"a"}))
    /\ overflow_checks = TRUE

NextMembers ==
    \/ Propose({"c"}, MemberSets, MaxMemberProposals)
    \/ Approve(Accounts, MaxMemberProposals)
    \/ Finalize({"a"}, MaxMemberProposals)
    \/ Tick

SpecMembers == InitMembers /\ [][NextMembers]_vars

(* SpecMulti: the policy of test_multi_council, two groups that share a.   *)

InitMulti ==
    /\ InitWith(VCurrent(MultiPolicy))
    /\ overflow_checks = TRUE

NextMulti ==
    \/ Propose(MultiAccounts, {<<Transfer>>}, MaxMultiProposals)
    \/ Approve(MultiAccounts, MaxMultiProposals)
    \/ Reject(MultiAccounts, MaxMultiProposals)
    \/ Finalize(MultiAccounts, MaxMultiProposals)
    \/ Tick

SpecMulti == InitMulti /\ [][NextMulti]_vars

(* SpecIds: proposals and bounties are created, approved and removed under *)
(* the policy that lets the council remove proposals.                      *)

IdSets == { <<Transfer>>, <<AddBounty>> }

InitIds ==
    /\ InitWith(VCurrent(OpenPolicy))
    /\ overflow_checks = TRUE

NextIds ==
    \/ Propose({"c"}, IdSets, MaxIdProposals)
    \/ Approve(Council, MaxIdProposals)
    \/ Remove(Council, MaxIdProposals)
    \/ Tick

SpecIds == InitIds /\ [][NextIds]_vars

(* SpecRoles: Policy::can_execute_action over policies of two roles, each  *)
(* of any kind, either name and any of a few permission sets.              *)

RoleNames == {"r", "s"}
RoleKinds == {Everyone, Member(1), Group({"a"})}
PermissionSets == { {}, {":AddProposal"}, {":*"}, {"*:AddProposal"}, {"*:VoteApprove"},
                    {"*:*"} }
Roles == [name : RoleNames, kind : RoleKinds, permissions : PermissionSets]
RolePolicies == { [default_policy(Council) EXCEPT !.roles = <<r1, r2>>] :
                     r1 \in Roles, r2 \in Roles }
\* the users, proposal kinds and actions the permission check is asked about
RoleUsers == [account_id : {"a", "c"}, amount : {0, 1}]
RoleProposalKinds == {"", "transfer"}
RoleActions == {"AddProposal", "VoteApprove", "VoteReject"}

InitRoles ==
    /\ \E p \in RolePolicies : InitWith(VCurrent(p))
    /\ overflow_checks = TRUE

NextRoles ==
    \/ Propose({"a", "c"}, {<<Transfer>>}, MaxProposals)
    \/ Approve({"a", "c"}, MaxProposals)
    \/ Reject({"a", "c"}, MaxProposals)

SpecRoles == InitRoles /\ [][NextRoles]_vars

(* SpecKinds: versions are proposed, counter-proposed, amended and voted    *)
(* under a policy with proposal kinds and no proposal bond.                *)

InitKinds ==
    /\ InitWith(VCurrent(KindPolicy))
    /\ overflow_checks = TRUE

NextKinds ==
    \/ Propose(Proposers, KindSets, MaxProposals)
    \/ CounterPropose(Proposers, KindSets, MaxProposals)
    \/ Amend(Proposers, KindAmendments, MaxProposals)
    \/ Approve(Council, MaxProposals)
    \/ Veto({"b"}, VetoWeights, MaxProposals)

SpecKinds == InitKinds /\ [][NextKinds]_vars

(* SpecKindChange: the same policy, with a proposal that replaces the       *)
(* proposal kinds while another proposal is stored.                        *)

NextKindChange ==
    \/ Propose({"c"}, {<<Transfer>>, <<ChangeKinds>>}, MaxKindProposals)
    \/ CounterPropose({"c"}, {<<Transfer>>}, MaxKindProposals)
    \/ Amend({"c"}, {<<Transfer, ChangeConfig>>}, MaxKindProposals)
    \/ Approve(Council, MaxKindProposals)

SpecKindChange == InitKinds /\ [][NextKindChange]_vars

(* SpecThreshold: Policy::get_threshold over the default policy with any   *)
(* of the vote policies, as approve calls it with the oracle's total.      *)

InitThreshold ==
    /\ \E vp \in VotePolicies :
           InitWith(VCurrent([default_policy(Council) EXCEPT !.default_vote_policy = vp]))
    /\ overflow_checks = TRUE

NextThreshold ==
    \/ Propose({"c"}, {<<Transfer>>}, MaxProposals)
    \/ ApproveStaked(Council, StakeWeights, Totals, MaxProposals)

SpecThreshold == InitThreshold /\ [][NextThreshold]_vars

----------------------------------------------------------------------------
(* Properties.  A property of a call is stated over the outcome the method *)
(* computes in the current state for every caller and argument.            *)

\* the permission check of handle_vote and finalize for the caller
Permitted(user, id, action) ==
    can_execute_action(policy.policy, [account_id |-> user, amount |-> NoWeight],
                       proposals[id].kind, action)

\* the weight recorded for the accounts of set S that voted for slot choice
RECURSIVE VotedWeight(_, _, _)
VotedWeight(votes, S, choice) ==
    IF S = {} THEN 0
    ELSE LET a == CHOOSE x \in S : TRUE
         IN (IF votes[a].choice = choice THEN votes[a].weight ELSE 0)
            + VotedWeight(votes, S \ {a}, choice)

\* C1: for every stored proposal the weight of each account in votes is
\* counted in exactly one tally slot, the one its recorded choice names:
\* reject_count is the weight of the votes with choice 0 and approve_count[v]
\* the weight of the votes with choice v + 1, so the tallies together sum to
\* the weight of all recorded votes.
C1_TallyMatchesVotes ==
    \A id \in DOMAIN proposals :
        LET proposal == proposals[id]
            voters == DOMAIN proposal.votes
        IN /\ proposal.reject_count = VotedWeight(proposal.votes, voters, 0)
           /\ \A c \in 1..Len(proposal.approve_count) :
                  proposal.approve_count[c] = VotedWeight(proposal.votes, voters, c)

\* C2: when an account that already holds an approve vote for version v of
\* an in-progress proposal calls approve for the same v again, the call fails
\* with ERR_ALREADY_VOTED (and so changes nothing).
C2_RepeatApproveFails ==
    \A id \in DOMAIN proposals, caller \in Accounts, v \in Versions :
        (/\ proposals[id].status = InProgress
         /\ caller \in DOMAIN proposals[id].votes
         /\ proposals[id].votes[caller].choice = v + 1)
        => approve(State, Env(caller, 0, NoWeight, TotalDelegation), id, v).err
               = "ERR_ALREADY_VOTED"

\* C3: reject by an account with the VoteReject permission on an in-progress
\* proposal succeeds, records the caller's vote with choice 0 and its weight
\* in reject_count, and the proposal is Rejected exactly when reject_count
\* has reached the threshold.
C3_RejectSucceeds ==
    \A id \in DOMAIN proposals, caller \in Accounts :
        (/\ proposals[id].status = InProgress
         /\ Permitted(caller, id, "VoteReject")
         /\ caller \notin DOMAIN proposals[id].votes)
        => LET r == reject(State, Env(caller, 0, NoWeight, TotalDelegation), id)
               after == r.st.proposals[id]
               threshold == get_threshold(policy.policy,
                                get_vote_policy(policy.policy, proposals[id].kind),
                                TotalDelegation, proposals[id].kind).val
           IN /\ r.err = OK
              /\ after.votes[caller].choice = 0
              /\ after.reject_count = proposals[id].reject_count + after.votes[caller].weight
              /\ (after.status = Rejected) = (after.reject_count >= threshold)

\* C4: once the stored status of a proposal is not InProgress, no operation
\* changes its status, versions, approve_count, reject_count, remove_count
\* or remove_flag.
C4_TerminalFrozen ==
    [][\A id \in DOMAIN proposals :
          proposals[id].status # InProgress
          => /\ id \in DOMAIN proposals'
             /\ proposals'[id].status = proposals[id].status
             /\ proposals'[id].versions = proposals[id].versions
             /\ proposals'[id].approve_count = proposals[id].approve_count
             /\ proposals'[id].reject_count = proposals[id].reject_count
             /\ proposals'[id].remove_count = proposals[id].remove_count
             /\ proposals'[id].remove_flag = proposals[id].remove_flag]_vars

\* C5: finalize by an account with the Finalize permission on an in-progress
\* proposal whose period has passed succeeds, stores the status Expired and
\* refunds the bond of every version once; a second finalize then fails with
\* ERR_PROPOSAL_NOT_IN_PROGRESS.
C5_FinalizeStoresExpired ==
    \A id \in DOMAIN proposals, caller \in Accounts :
        (/\ proposals[id].status = InProgress
         /\ Permitted(caller, id, "Finalize")
         /\ proposals[id].submission_time + policy.policy.proposal_period < now)
        => LET env == Env(caller, 0, NoWeight, TotalDelegation)
               r == finalize(State, env, id)
           IN /\ r.err = OK
              /\ r.st.proposals[id].status = Expired
              /\ \A v \in 0..(Len(proposals[id].versions) - 1) :
                     Count(r.st.refunds, <<id, v>>) = Count(refunds, <<id, v>>) + 1
              /\ finalize(r.st, env, id).err = "ERR_PROPOSAL_NOT_IN_PROGRESS"

\* C6: a proposal whose stored status is Approved or Rejected has had the
\* bond of each of its versions refunded exactly once, and stays so under
\* every later operation.
C6_RefundExactlyOnce ==
    \A id \in DOMAIN proposals :
        proposals[id].status.type \in {"Approved", "Rejected"}
        => \A v \in 0..(Len(proposals[id].versions) - 1) :
               Count(refunds, <<id, v>>) = 1

\* the council of the default policy and the quorum of members it takes
CouncilOf(p) == p.roles[2].kind.accounts
Majority(n) == Min(n, (n \div 2) + 1)

\* C10: under the default policy with a council of n members a proposal is
\* Approved for version v only when at least min(n, floor(n/2) + 1) distinct
\* council members hold an approve vote for v; for n >= 2 no single member
\* approves alone.
C10_ApprovedByMajority ==
    \A id \in DOMAIN proposals :
        proposals[id].status.type = "Approved"
        => LET council == CouncilOf(policy.policy)
               approvers == {a \in council \cap DOMAIN proposals[id].votes :
                                proposals[id].votes[a].choice
                                    = proposals[id].status.version + 1}
           IN Cardinality(approvers) >= Majority(Cardinality(council))

\* the claim records account a holds in state st, and how many of the
\* records in list claims are on bounty id
ClaimsOf(st, a) ==
    IF a \in DOMAIN st.bounty_claimers THEN st.bounty_claimers[a] ELSE <<>>

ClaimsOn(claims, id) == Cardinality({i \in 1..Len(claims) : claims[i].bounty_id = id})

RECURSIVE TotalClaimsOn(_, _, _)
TotalClaimsOn(st, S, id) ==
    IF S = {} THEN 0
    ELSE LET a == CHOOSE x \in S : TRUE
         IN ClaimsOn(ClaimsOf(st, a), id) + TotalClaimsOn(st, S \ {a}, id)

\* C7: for every bounty id, bounty_claims_count[id] (0 when absent) is the
\* number of claim records on that bounty over the claim lists of all
\* accounts.
C7_ClaimsCountMatches ==
    \A id \in BountyIds :
        Count(bounty_claims_count, id) = TotalClaimsOn(State, Workers, id)

\* C8: when a vote cast by an account other than the receiver decides a
\* proposal carrying BountyDone{bounty_id, receiver}, the receiver's first
\* claim on bounty_id is removed from the receiver's list and the claim list
\* of every other account is left as it was.
C8_PayoutRemovesReceiversClaim ==
    \A id \in DOMAIN proposals, voter \in Workers :
        LET instr == proposals[id].versions[1].instructions[1]
            r == approve(State, Env(voter, 0, NoWeight, TotalDelegation), id, 0)
        IN (/\ instr.tag = "BountyDone"
            /\ instr.receiver_id # voter
            /\ r.err = OK
            /\ r.st.proposals[id].status.type \in {"Approved", "Rejected"})
           => LET before == ClaimsOf(State, instr.receiver_id)
                  idx == internal_find_claim(instr.bounty_id, before)
              IN /\ idx # 0
                 /\ ClaimsOf(r.st, instr.receiver_id) = SeqRemove(before, idx)
                 /\ \A other \in Workers \ {instr.receiver_id} :
                        ClaimsOf(r.st, other) = ClaimsOf(State, other)

\* C9: under the policy of test_multi_council a Transfer proposal stays
\* InProgress while only b (council) and c (community) hold approve votes
\* for version 0, is Approved for version 0 once a, b and c all hold one, and
\* is never Approved without the vote of a.
C9_MultiCouncil ==
    \A id \in DOMAIN proposals :
        LET proposal == proposals[id]
            voters == DOMAIN proposal.votes
        IN (\A x \in voters : proposal.votes[x].choice = 1)
           => /\ voters \subseteq {"b", "c"} => proposal.status = InProgress
              /\ voters = {"a", "b", "c"} => proposal.status = Approved(0)
              /\ proposal.status = Approved(0) => "a" \in voters

\* C11: every stored proposal has approve_count, remove_count, remove_flag
\* and versions of one length, which is at least 1.
C11_ArraysAligned ==
    \A id \in DOMAIN proposals :
        LET proposal == proposals[id]
        IN /\ Len(proposal.versions) >= 1
           /\ Len(proposal.approve_count) = Len(proposal.versions)
           /\ Len(proposal.remove_count) = Len(proposal.versions)
           /\ Len(proposal.remove_flag) = Len(proposal.versions)

\* C11 witness: a stored proposal holds a second version, with votes cast
C11_TwoVersionsVoted ==
    \E id \in DOMAIN proposals :
        /\ Len(proposals[id].versions) = 2
        /\ proposals[id].approve_count[2] > 0

\* a version of proposal id that sets the staking contract
SetsStaking(id, v) ==
    /\ v < Len(proposals[id].versions)
    /\ \E i \in DOMAIN proposals[id].versions[v + 1].instructions :
           proposals[id].versions[v + 1].instructions[i].tag = "SetStakingContract"

\* once a staking contract is set: no approve call leaves a version that
\* sets the staking contract Approved, a call that would fails with
\* ERR_INVALID_STAKING_CHANGE, propose and counter_propose of
\* SetStakingContract with the bond fail with ERR_STAKING_CONTRACT_CANT_CHANGE,
\* and no amend to SetStakingContract succeeds
StakingLocked ==
    staking_id # NoAccount =>
        /\ \A id \in DOMAIN proposals, caller \in Accounts, v \in Versions :
               SetsStaking(id, v) =>
                   LET r == approve(State, Env(caller, 0, NoWeight, TotalDelegation), id, v)
                   IN /\ r.err = OK => r.st.proposals[id].status = InProgress
                      /\ r.err \in {OK, "ERR_INVALID_STAKING_CHANGE", "ERR_PERMISSION_DENIED",
                                    "ERR_PROPOSAL_NOT_IN_PROGRESS", "ERR_PROPOSAL_REMOVED"}
                      /\ r.st.staking_id = staking_id
        /\ \A caller \in Accounts, instructions \in StakingSets \cup StakingCounters,
              d \in Descriptions :
               LET env == Env(caller, DefaultBond, NoWeight, TotalDelegation)
               IN /\ propose(State, env, d, instructions).err
                         = "ERR_STAKING_CONTRACT_CANT_CHANGE"
                  /\ \A id \in DOMAIN proposals :
                         counter_propose(State, env, id, d, instructions).err
                             = "ERR_STAKING_CONTRACT_CANT_CHANGE"
                  /\ \A id \in DOMAIN proposals, v \in Versions, deposit \in Deposits :
                         amend(State, Env(caller, deposit, NoWeight, TotalDelegation), id, v,
                               d, instructions).err # OK

\* C12: staking_id changes at most once, from None to Some: once it is
\* Some(x) every step leaves it x, the vote that would approve a further
\* SetStakingContract version fails, and proposing SetStakingContract fails
\* with ERR_STAKING_CONTRACT_CANT_CHANGE.
C12_StakingSetOnce ==
    /\ []StakingLocked
    /\ [][staking_id # NoAccount => staking_id' = staking_id]_vars

\* C12 witness: a staking contract is set while another proposal holds an
\* in-progress version naming a different one, which b's vote would approve
C12_SetWithPending ==
    /\ staking_id = "s1"
    /\ \E id \in DOMAIN proposals :
           /\ proposals[id].status = InProgress
           /\ Len(proposals[id].versions) = 2
           /\ SetsStaking(id, 1)
           /\ approve(State, Env("b", 0, NoWeight, TotalDelegation), id, 1).err
                  = "ERR_INVALID_STAKING_CHANGE"

\* C13: for every stored bounty, bounty_claims_count is at most the bounty's
\* remaining times, and so is the number of outstanding claim records on it.
C13_ClaimsWithinTimes ==
    \A id \in DOMAIN bounties :
        /\ Count(bounty_claims_count, id) <= bounties[id].times
        /\ TotalClaimsOn(State, Workers, id) <= bounties[id].times

\* the outcome of bounty_claim(id, d) followed at once by bounty_giveup(id),
\* both by caller: [claimed, err, st]
ClaimThenGiveup(caller, id, d) ==
    LET env == Env(caller, DefaultBond, NoWeight, TotalDelegation)
        r1 == bounty_claim(State, env, id, d)
        r2 == bounty_giveup(r1.st, [env EXCEPT !.attached_deposit = 0], id)
    IN [claimed |-> r1.err = OK, err |-> r2.err, st |-> r2.st]

\* the giveup succeeded, returned the bond once and left the claim count of
\* id and the caller's claim list as they are in the current state
Restored(caller, id, r) ==
    /\ r.err = OK
    /\ Count(r.st.bond_returns, caller) = Count(bond_returns, caller) + 1
    /\ Count(r.st.bounty_claims_count, id) = Count(bounty_claims_count, id)
    /\ ClaimsOf(r.st, caller) = ClaimsOf(State, caller)

\* C14: a successful bounty_claim(id, d) followed at once by
\* bounty_giveup(id) of the same account returns the bounty bond to it and
\* restores bounty_claims_count[id] and the account's claim list.
C14_ClaimGiveupRestores ==
    \A caller \in Workers, id \in BountyIds, d \in Deadlines :
        LET r == ClaimThenGiveup(caller, id, d)
        IN r.claimed => Restored(caller, id, r)

\* the same for an account that holds no claim on id before the claim: with
\* an earlier claim on id, giveup removes that earlier claim and returns the
\* bond only if the earlier claim is within the forgiveness period
ClaimGiveupRestoresFirstClaim ==
    \A caller \in Workers, id \in BountyIds, d \in Deadlines :
        LET r == ClaimThenGiveup(caller, id, d)
        IN (r.claimed /\ internal_find_claim(id, ClaimsOf(State, caller)) = 0)
           => Restored(caller, id, r)

\* the threshold handle_vote computes for proposal id
Threshold(id) ==
    get_threshold(policy.policy, get_vote_policy(policy.policy, proposals[id].kind),
                  TotalDelegation, proposals[id].kind).val

\* no version of the in-progress proposal id has its approve_count at the
\* threshold
BelowThreshold(id) ==
    \A c \in 1..Len(proposals[id].approve_count) :
        proposals[id].approve_count[c] < Threshold(id)

\* C15: a proposal is in progress exactly while no version's approve_count
\* has reached the threshold; the step that makes it Approved(w) is the one
\* that takes approve_count[w] to the threshold, before any other version's,
\* it executes the instructions of version w only (the staking contract
\* becomes the one version w names) and refunds the bond of every version
\* once.
C15_FirstToThreshold ==
    /\ [](\A id \in DOMAIN proposals :
              proposals[id].status = InProgress => BelowThreshold(id))
    /\ [][\A id \in DOMAIN proposals :
              (/\ proposals[id].status = InProgress
               /\ id \in DOMAIN proposals'
               /\ proposals'[id].status.type = "Approved")
              => LET w == proposals'[id].status.version
                     n == Len(proposals[id].versions)
                 IN /\ BelowThreshold(id)
                    /\ proposals'[id].approve_count[w + 1] >= Threshold(id)
                    /\ staking_id = NoAccount
                    /\ staking_id' = proposals[id].versions[w + 1].instructions[1].staking_id
                    /\ \A v \in 0..(n - 1) :
                           Count(refunds', <<id, v>>) = Count(refunds, <<id, v>>) + 1]_vars

\* the config and policy that instructions i.. of a version leave when each
\* is applied to what the previous one left: cp is [config, policy]
RECURSIVE ApplyInOrder(_, _, _)
ApplyInOrder(cp, instructions, i) ==
    IF i > Len(instructions) THEN cp
    ELSE LET instr == instructions[i]
             next ==
               CASE instr.tag = "ChangeConfig" -> [cp EXCEPT !.config = instr.config]
                 [] instr.tag = "ChangePolicy" -> [cp EXCEPT !.policy = instr.policy]
                 [] instr.tag = "AddMemberToRole" ->
                      [cp EXCEPT !.policy =
                          VCurrent(add_member_to_role(@.policy, instr.role, instr.member_id))]
                 [] instr.tag = "RemoveMemberFromRole" ->
                      [cp EXCEPT !.policy =
                          VCurrent(remove_member_from_role(@.policy, instr.role,
                                                           instr.member_id))]
                 [] OTHER -> cp
         IN ApplyInOrder(next, instructions, i + 1)

\* C16: the approve call that makes version v Approved leaves the config and
\* policy that the instructions of v give when applied in declared order,
\* each to the state the previous one left.
C16_InstructionsInOrder ==
    \A id \in DOMAIN proposals, caller \in Accounts, v \in Versions :
        LET r == approve(State, Env(caller, 0, NoWeight, TotalDelegation), id, v)
        IN (r.err = OK /\ r.st.proposals[id].status = Approved(v))
           => LET e == ApplyInOrder([config |-> config, policy |-> policy],
                                    proposals[id].versions[v + 1].instructions, 1)
              IN /\ r.st.config = e.config
                 /\ r.st.policy = e.policy

\* the call fails with error e and leaves the state as it is
FailsWith(r, e) == r.err = e /\ r.st = State

\* C17: propose and counter_propose (on a stored proposal) with the bond
\* attached, and amend (by a caller who passes its permission and status
\* checks, with no deposit under a policy without bond) fail with
\* ERR_EMPTY_INSTRUCTION_SET on the empty list and with
\* ERR_INVALID_INSTRUCTION_SET on a list of two that holds SetStakingContract,
\* UpgradeSelf, Vote or BountyDone, changing nothing; a list of one such
\* instruction is valid, and propose by a caller who may add proposals stores
\* it (SetStakingContract while no staking contract is set).
C17_InstructionSetChecked ==
    \A caller \in Accounts, d \in Descriptions :
        LET env == Env(caller, DefaultBond, NoWeight, TotalDelegation)
            env0 == Env(caller, 0, NoWeight, TotalDelegation)
            Checked(instructions, e) ==
                /\ FailsWith(propose(State, env, d, instructions), e)
                /\ \A id \in DOMAIN proposals :
                       /\ FailsWith(counter_propose(State, env, id, d, instructions), e)
                       /\ (Permitted(caller, id, "AmendProposal")
                             /\ proposals[id].status = InProgress)
                          => \A v \in Versions :
                                 FailsWith(amend(State, env0, id, v, d, instructions), e)
        IN /\ Checked(<<>>, "ERR_EMPTY_INSTRUCTION_SET")
           /\ \A bad \in InvalidSets : Checked(bad, "ERR_INVALID_INSTRUCTION_SET")
           /\ \A x \in Standalone :
                  LET r == propose(State, env, d, <<x>>)
                  IN /\ is_valid_instruction_set(<<x>>)
                     /\ (/\ x.tag = "SetStakingContract" => staking_id = NoAccount
                         /\ can_execute_action(policy.policy, internal_user_info(env),
                                match_proposal_kind(policy.policy, <<x>>), "AddProposal"))
                        => /\ r.err = OK
                           /\ r.st.last_proposal_id = last_proposal_id + 1
                           /\ r.st.proposals[r.id].versions[1].instructions = <<x>>

\* C17 witness: an in-progress proposal holds a version of the single
\* instruction Vote, and its proposer's amend to the empty list is refused
\* for being empty
C17_SingleVoteStored ==
    \E id \in DOMAIN proposals :
        /\ proposals[id].status = InProgress
        /\ proposals[id].versions[1].instructions = <<Vote>>
        /\ amend(State, Env(proposals[id].versions[1].proposer, 0, NoWeight,
                            TotalDelegation), id, 0, "d", <<>>).err
               = "ERR_EMPTY_INSTRUCTION_SET"

\* the ids handed out so far stay below the counters
IdsBelowCounters ==
    /\ \A id \in DOMAIN proposals : id < last_proposal_id
    /\ \A id \in DOMAIN bounties : id < last_bounty_id

\* a successful propose returns the counter, steps it by one and stores a
\* fresh proposal under an id no proposal holds
ProposeAllocates ==
    \A caller \in Accounts, deposit \in Deposits, d \in Descriptions, instructions \in IdSets :
        LET env == Env(caller, deposit, NoWeight, TotalDelegation)
            r == propose(State, env, d, instructions)
        IN r.err = OK =>
              /\ r.id = last_proposal_id
              /\ r.id \notin DOMAIN proposals
              /\ r.st.last_proposal_id = last_proposal_id + 1
              /\ DOMAIN r.st.proposals = DOMAIN proposals \cup {r.id}
              /\ \A id \in DOMAIN proposals : r.st.proposals[id] = proposals[id]
              /\ LET p == r.st.proposals[r.id]
                 IN /\ Len(p.versions) = 1
                    /\ p.versions[1] = [proposer |-> caller, description |-> d,
                                        instructions |-> instructions]
                    /\ p.status = InProgress
                    /\ p.approve_count = <<0>>
                    /\ p.reject_count = 0
                    /\ p.remove_count = <<0>>
                    /\ p.remove_flag = <<FALSE>>
                    /\ DOMAIN p.votes = {}
                    /\ p.remove_votes = {}
                    /\ p.submission_time = now

\* internal_add_bounty stores the bounty under the counter and steps it by one
AddBountyAllocates ==
    LET st == internal_add_bounty(State, TheBounty)
    IN /\ last_bounty_id \notin DOMAIN bounties
       /\ st.last_bounty_id = last_bounty_id + 1
       /\ DOMAIN st.bounties = DOMAIN bounties \cup {last_bounty_id}
       /\ st.bounties[last_bounty_id] = TheBounty
       /\ \A id \in DOMAIN bounties : st.bounties[id] = bounties[id]

\* in one step a counter stays or grows by one, with exactly that id new,
\* and an id below the counter that holds no proposal stays without one
CountersStep ==
    /\ last_proposal_id' \in {last_proposal_id, last_proposal_id + 1}
    /\ last_bounty_id' \in {last_bounty_id, last_bounty_id + 1}
    /\ last_proposal_id' = last_proposal_id + 1 =>
           DOMAIN proposals' = DOMAIN proposals \cup {last_proposal_id}
    /\ last_bounty_id' = last_bounty_id + 1 =>
           DOMAIN bounties' = DOMAIN bounties \cup {last_bounty_id}
    /\ \A id \in 0..MaxIdProposals :
           (id < last_proposal_id /\ id \notin DOMAIN proposals) => id \notin DOMAIN proposals'

\* C18: proposal and bounty ids are the counters last_proposal_id and
\* last_bounty_id: a successful propose returns the counter and steps it by
\* one, internal_add_bounty does the same for bounties, no step lowers a
\* counter, an id freed by remove is never handed out again, and the new
\* proposal has one version, status InProgress, zero tallies and no votes.
C18_IdsMonotonic ==
    /\ [](IdsBelowCounters /\ ProposeAllocates /\ AddBountyAllocates)
    /\ [][CountersStep]_vars

\* C18 witness: proposal 0 was removed, proposal 1 was created and is as
\* propose left it, proposal 2 added a bounty when it was approved
C18_FreshIdAfterRemove ==
    /\ last_proposal_id = 3
    /\ 0 \notin DOMAIN proposals
    /\ 1 \in DOMAIN proposals
    /\ proposals[1] = NewProposal(Env("c", DefaultBond, NoWeight, TotalDelegation),
                                  proposals[1].kind, proposals[1].versions[1].description,
                                  proposals[1].versions[1].instructions)
    /\ last_bounty_id = 1
    /\ 0 \in DOMAIN bounties

\* the role holds one of the four permission strings for kind and action
HasPermission(role, proposal_kind, action) ==
    role.permissions \cap { Perm(proposal_kind, to_label(action)), Perm(proposal_kind, "*"),
                            Perm("*", to_label(action)), "*:*" } # {}

\* can_execute_action agrees with the union over the roles matching the user
UnionOfMatchingRoles(p) ==
    \A user \in RoleUsers, proposal_kind \in RoleProposalKinds, action \in RoleActions :
        can_execute_action(p, user, proposal_kind, action)
            <=> \E i \in DOMAIN p.roles :
                    /\ match_user(p.roles[i].kind, user)
                    /\ HasPermission(p.roles[i], proposal_kind, action)

\* C19: can_execute_action(user, kind, action) is true exactly when some
\* role of the policy that matches the user holds "kind:action", "kind:*",
\* "*:action" or "*:*", whatever the names of the matching roles.
C19_UnionOfMatchingRoles == UnionOfMatchingRoles(policy.policy)

\* the same where no two roles of the policy share a name
UnionOfDistinctlyNamedRoles ==
    (\A i, j \in DOMAIN policy.policy.roles :
         policy.policy.roles[i].name = policy.policy.roles[j].name => i = j)
    => UnionOfMatchingRoles(policy.policy)

\* C20: on a stored proposal, approve of an existing version by a caller
\* without the VoteApprove permission for the proposal's kind, and reject by
\* a caller without VoteReject, fail with ERR_PERMISSION_DENIED and leave
\* the proposal's votes, tallies and status, and all other state, unchanged.
C20_VoteNeedsPermission ==
    \A caller \in Accounts, weight \in {NoWeight} \cup VetoWeights, id \in DOMAIN proposals :
        LET env == Env(caller, 0, weight, TotalDelegation)
            user == internal_user_info(env)
            kind == proposals[id].kind
        IN /\ ~can_execute_action(policy.policy, user, kind, "VoteApprove")
              => \A v \in 0..(Len(proposals[id].versions) - 1) :
                     FailsWith(approve(State, env, id, v), "ERR_PERMISSION_DENIED")
           /\ ~can_execute_action(policy.policy, user, kind, "VoteReject")
              => FailsWith(reject(State, env, id), "ERR_PERMISSION_DENIED")

\* C20 witness: an in-progress proposal of two versions holds a vote, and
\* c, who is outside the council, is refused both votes on it
C20_OutsiderRefused ==
    \E id \in DOMAIN proposals :
        LET env == Env("c", 0, NoWeight, TotalDelegation) IN
        /\ proposals[id].status = InProgress
        /\ Len(proposals[id].versions) = 2
        /\ DOMAIN proposals[id].votes # {}
        /\ approve(State, env, id, 1).err = "ERR_PERMISSION_DENIED"
        /\ reject(State, env, id).err = "ERR_PERMISSION_DENIED"

\* C21: counter_propose succeeds only for a caller who holds the
\* AddCounterProposal permission for the kind of the proposal; holding
\* AddProposal alone does not let a caller add a counter-proposal.
C21_CounterProposeNeedsOwnPermission ==
    \A caller \in Accounts, id \in DOMAIN proposals, d \in Descriptions,
       instructions \in InstructionSets :
        LET env == Env(caller, DefaultBond, NoWeight, TotalDelegation)
        IN counter_propose(State, env, id, d, instructions).err = OK
              => Permitted(caller, id, "AddCounterProposal")

\* voting on version v (0-based) of proposal p has begun
VotingBegun(p, v) == p.approve_count[v + 1] # 0 \/ p.remove_count[v + 1] # 0

\* C22: withdraw(id, version) succeeds only for the proposer of the version
\* while its approve_count and remove_count are 0, and then sets its
\* remove_flag and changes nothing else; on an in-progress proposal, for a
\* permitted caller and a version not yet removed, another account's call
\* fails with ERR_UNAUTHORIZED_WITHDRAW and the proposer's call after voting
\* began fails with ERR_VOTING_BEGUN, both without any change.
C22_WithdrawByProposerBeforeVotes ==
    \A caller \in Accounts, id \in DOMAIN proposals, v \in Versions :
        LET env == Env(caller, 0, NoWeight, TotalDelegation)
            p == proposals[id]
            r == withdraw(State, env, id, v)
        IN /\ r.err = OK =>
                /\ v < Len(p.versions)
                /\ p.versions[v + 1].proposer = caller
                /\ ~VotingBegun(p, v)
                /\ r.st = [State EXCEPT !.proposals[id].remove_flag[v + 1] = TRUE]
                /\ r.st.proposals[id].status = InProgress
           /\ (/\ Permitted(caller, id, "WithdrawProposal")
               /\ p.status = InProgress
               /\ v < Len(p.versions)
               /\ ~p.remove_flag[IF v < Len(p.versions) THEN v + 1 ELSE 1]) =>
                CASE p.versions[v + 1].proposer # caller ->
                         FailsWith(r, "ERR_UNAUTHORIZED_WITHDRAW")
                  [] p.versions[v + 1].proposer = caller /\ VotingBegun(p, v) ->
                         FailsWith(r, "ERR_VOTING_BEGUN")
                  [] OTHER -> r.err = OK

\* C22 witness: version 0 stands withdrawn with no vote on it, and version 1
\* has an approve vote, so that its proposer's withdraw is refused
C22_WithdrawnAndVotedVersions ==
    \E id \in DOMAIN proposals :
        LET p == proposals[id] IN
        /\ p.status = InProgress
        /\ Len(p.versions) = 2
        /\ p.remove_flag[1] /\ ~VotingBegun(p, 0)
        /\ ~p.remove_flag[2] /\ p.approve_count[2] > 0
        /\ withdraw(State, Env(p.versions[2].proposer, 0, NoWeight, TotalDelegation), id, 1).err
               = "ERR_VOTING_BEGUN"

\* proposal id is in progress and its version v (0-based) carries the remove flag
Flagged(id, v) ==
    /\ proposals[id].status = InProgress
    /\ v < Len(proposals[id].versions)
    /\ proposals[id].remove_flag[v + 1]

\* an approve of a flagged version by a permitted caller fails with
\* ERR_PROPOSAL_REMOVED and changes nothing
FlaggedVersionRefusesApprove ==
    \A caller \in Accounts, id \in DOMAIN proposals, v \in Versions :
        (Flagged(id, v) /\ Permitted(caller, id, "VoteApprove"))
        => FailsWith(approve(State, Env(caller, 0, NoWeight, TotalDelegation), id, v),
                     "ERR_PROPOSAL_REMOVED")

\* no stored proposal is approved in a version that carries the remove flag
FlaggedVersionNotApproved ==
    \A id \in DOMAIN proposals :
        proposals[id].status.type = "Approved"
        => ~proposals[id].remove_flag[proposals[id].status.version + 1]

\* beside a flagged version, an approve of an unflagged version is not
\* refused as removed
OtherVersionsStillVoted ==
    \A caller \in Accounts, id \in DOMAIN proposals, v, w \in Versions :
        (/\ Flagged(id, v) /\ w < Len(proposals[id].versions)
         /\ ~proposals[id].remove_flag[IF w < Len(proposals[id].versions) THEN w + 1 ELSE 1]
         /\ Permitted(caller, id, "VoteApprove"))
        => approve(State, Env(caller, 0, NoWeight, TotalDelegation), id, w).err = OK

\* beside a flagged version, a reject vote of a permitted caller is accepted
RejectStillAccepted ==
    \A caller \in Accounts, id \in DOMAIN proposals, v \in Versions :
        (Flagged(id, v) /\ Permitted(caller, id, "VoteReject"))
        => reject(State, Env(caller, 0, NoWeight, TotalDelegation), id).err = OK

\* a remove flag that is set stays set while the proposal is stored
RemoveFlagStays ==
    \A id \in DOMAIN proposals \cap DOMAIN proposals' :
        \A v \in DOMAIN proposals[id].remove_flag :
            proposals[id].remove_flag[v] => proposals'[id].remove_flag[v]

\* C23: a version whose remove_flag is true never receives an approve vote
\* and never becomes the approved version: approve of it fails with
\* ERR_PROPOSAL_REMOVED and changes nothing, while approve votes on the other
\* versions and reject votes are still accepted.
C23_RemovedVersionNotApproved ==
    /\ [](/\ FlaggedVersionRefusesApprove
          /\ FlaggedVersionNotApproved
          /\ OtherVersionsStillVoted
          /\ RejectStillAccepted)
    /\ [][RemoveFlagStays]_vars

\* the accounts that vetoed version v (0-based) of proposal p, and their
\* summed weight where every veto carries the weight of VetoWeights
Vetoers(p, v) == {rv.account_id : rv \in {x \in p.remove_votes : x.version = v}}
RECURSIVE VetoedWeight(_)
VetoedWeight(S) ==
    IF S = {} THEN 0
    ELSE LET a == CHOOSE x \in S : TRUE
         IN (CHOOSE w \in VetoWeights : TRUE) + VetoedWeight(S \ {a})

\* C24: veto(id, version) by a caller with the VoteRemove permission on an
\* in-progress proposal records the RemoveVote, adds the caller's weight to
\* remove_count[version] and sets remove_flag[version] when the count reaches
\* the threshold; a second veto of the version by the same account fails
\* with ERR_ALREADY_VOTED and changes nothing; remove_count[version] is at
\* all times the summed weight of the distinct accounts that vetoed it.
C24_VetoCountsDistinctAccounts ==
    \A id \in DOMAIN proposals :
        LET p == proposals[id] IN
        /\ \A v \in 0..(Len(p.versions) - 1) :
               p.remove_count[v + 1] = VetoedWeight(Vetoers(p, v))
        /\ \A caller \in Accounts, w \in VetoWeights, v \in 0..(Len(p.versions) - 1) :
               LET r == veto(State, Env(caller, 0, w, TotalDelegation), id, v)
                   vote == [account_id |-> caller, version |-> v]
                   q == r.st.proposals[id]
               IN (Permitted(caller, id, "VoteRemove") /\ p.status = InProgress) =>
                     IF vote \in p.remove_votes
                     THEN FailsWith(r, "ERR_ALREADY_VOTED")
                     ELSE /\ r.err = OK
                          /\ q.remove_votes = p.remove_votes \cup {vote}
                          /\ q.remove_count = [p.remove_count EXCEPT ![v + 1] = @ + w]
                          /\ (q.remove_count[v + 1] >= Threshold(id) => q.remove_flag[v + 1])
                          /\ q.status = InProgress

\* C24 witness: both council members vetoed version 0, its count reached the
\* threshold and set the flag, and a further veto by a is refused as a repeat
C24_VetoedPastThreshold ==
    \E id \in DOMAIN proposals :
        LET p == proposals[id] IN
        /\ p.status = InProgress
        /\ Vetoers(p, 0) = {"a", "b"}
        /\ p.remove_count[1] = 2
        /\ p.remove_count[1] >= Threshold(id)
        /\ p.remove_flag[1]
        /\ veto(State, Env("a", 0, 1, TotalDelegation), id, 0).err = "ERR_ALREADY_VOTED"

\* C25: amend(id, version, description, instructions) succeeds only for the
\* proposer of the version while its approve_count and remove_count are 0
\* and with instructions of the proposal's stored kind, and then replaces
\* versions[version] (same proposer) and nothing else; a call that passes the
\* permission, status and instruction checks fails with
\* ERR_DIFFERENT_PROPOSAL_KIND, ERR_UNAUTHORIZED_AMEND or ERR_VOTING_BEGUN
\* otherwise, without any change.
C25_AmendReplacesOneVersion ==
    \A caller \in Accounts, id \in DOMAIN proposals, v \in Versions, d \in {"d", "e"},
       instructions \in KindSets \cup KindAmendments :
        LET env == Env(caller, 0, NoWeight, TotalDelegation)
            p == proposals[id]
            r == amend(State, env, id, v, d, instructions)
            kind == match_proposal_kind(policy.policy, instructions)
        IN /\ r.err = OK =>
                /\ v < Len(p.versions)
                /\ p.versions[v + 1].proposer = caller
                /\ ~VotingBegun(p, v)
                /\ kind = p.kind
                /\ r.st = [State EXCEPT !.proposals[id].versions[v + 1] =
                              [proposer |-> caller, description |-> d,
                               instructions |-> instructions]]
           /\ (/\ Permitted(caller, id, "AmendProposal")
               /\ p.status = InProgress
               /\ internal_check_proposal(State, env, instructions).err = OK
               /\ v < Len(p.versions)) =>
                CASE kind # p.kind -> FailsWith(r, "ERR_DIFFERENT_PROPOSAL_KIND")
                  [] kind = p.kind /\ p.versions[v + 1].proposer # caller ->
                         FailsWith(r, "ERR_UNAUTHORIZED_AMEND")
                  [] kind = p.kind /\ p.versions[v + 1].proposer = caller
                       /\ VotingBegun(p, v) -> FailsWith(r, "ERR_VOTING_BEGUN")
                  [] OTHER -> r.err = OK

\* C25 witness: version 0 holds the instructions only amend submits, and
\* version 1 has an approve vote, so that its proposer's amend is refused
C25_AmendedAndVotedVersions ==
    \E id \in DOMAIN proposals :
        LET p == proposals[id] IN
        /\ p.status = InProgress
        /\ Len(p.versions) = 2
        /\ p.versions[1].instructions = <<Transfer, ChangeConfig>>
        /\ p.approve_count[2] > 0
        /\ amend(State, Env(p.versions[2].proposer, 0, NoWeight, TotalDelegation), id, 1,
                 "e", <<Transfer, ChangeConfig>>).err = "ERR_VOTING_BEGUN"

\* C26: counter_propose(id, description, instructions), when its
\* instructions pass internal_check_proposal, fails with
\* ERR_DIFFERENT_PROPOSAL_KIND unless their kind is the proposal's stored
\* kind; on success it appends one version and one 0 / 0 / false entry to
\* approve_count, remove_count and remove_flag, returns the index of the new
\* version, and leaves the existing versions and tally entries, reject_count,
\* votes, status and all other state unchanged.
C26_CounterProposeAppends ==
    \A caller \in Accounts, deposit \in Deposits, id \in DOMAIN proposals, d \in {"d", "e"},
       instructions \in KindSets \cup KindAmendments :
        LET env == Env(caller, deposit, NoWeight, TotalDelegation)
            p == proposals[id]
            r == counter_propose(State, env, id, d, instructions)
            kind == match_proposal_kind(policy.policy, instructions)
            appended == [p EXCEPT
                           !.versions = Append(@, [proposer |-> caller, description |-> d,
                                                   instructions |-> instructions]),
                           !.approve_count = Append(@, 0),
                           !.remove_count = Append(@, 0),
                           !.remove_flag = Append(@, FALSE)]
        IN /\ r.err = OK => kind = p.kind
           /\ internal_check_proposal(State, env, instructions).err = OK =>
                IF kind # p.kind
                THEN FailsWith(r, "ERR_DIFFERENT_PROPOSAL_KIND")
                ELSE /\ r.err = OK
                     /\ r.version = Len(p.versions)
                     /\ r.st = [State EXCEPT !.proposals[id] = appended]

\* C26 witness: a proposal of kind "transfer" holds a vote on its version 0
\* and a counter-proposal as version 1, and a counter-proposal of kind
\* "config" is refused
C26_CounterProposed ==
    \E id \in DOMAIN proposals :
        LET p == proposals[id] IN
        /\ p.kind = "transfer"
        /\ Len(p.versions) = 2
        /\ p.approve_count = <<1, 0>>
        /\ p.remove_count[2] = 0 /\ ~p.remove_flag[2]
        /\ DOMAIN p.votes # {}
        /\ counter_propose(State, Env("c", 0, NoWeight, TotalDelegation), id, "d",
                           <<ChangeConfig>>).err = "ERR_DIFFERENT_PROPOSAL_KIND"

\* every method that takes a proposal id answers ERR_NO_PROPOSAL for id in
\* state st
NoProposal(st, id) ==
    \A caller \in Accounts, v \in Versions :
        LET env == Env(caller, 0, NoWeight, TotalDelegation)
            bonded == Env(caller, DefaultBond, NoWeight, TotalDelegation)
            e == "ERR_NO_PROPOSAL"
        IN /\ approve(st, env, id, v).err = e
           /\ reject(st, env, id).err = e
           /\ withdraw(st, env, id, v).err = e
           /\ veto(st, env, id, v).err = e
           /\ remove(st, env, id).err = e
           /\ finalize(st, env, id).err = e
           /\ amend(st, env, id, v, "d", <<Transfer>>).err = e
           /\ counter_propose(st, bonded, id, "d", <<Transfer>>).err = e

\* C27: remove(id) by a caller with the RemoveProposal permission on an
\* in-progress proposal deletes the proposal and changes nothing else: no
\* refund, no other proposal, no bounty, no claim; every method then answers
\* ERR_NO_PROPOSAL for id, also in every later state; on an approved
\* proposal remove fails with ERR_PROPOSAL_NOT_IN_PROGRESS, and without the
\* permission with ERR_PERMISSION_DENIED, changing nothing.
C27_RemoveDeletesOnly ==
    /\ \A id \in 0..MaxIdProposals :
           (id < last_proposal_id /\ id \notin DOMAIN proposals) => NoProposal(State, id)
    /\ \A caller \in Accounts, id \in DOMAIN proposals :
           LET r == remove(State, Env(caller, 0, NoWeight, TotalDelegation), id)
           IN CASE ~Permitted(caller, id, "RemoveProposal") ->
                       FailsWith(r, "ERR_PERMISSION_DENIED")
                [] Permitted(caller, id, "RemoveProposal")
                     /\ proposals[id].status # InProgress ->
                       FailsWith(r, "ERR_PROPOSAL_NOT_IN_PROGRESS")
                [] OTHER ->
                       /\ r.err = OK
                       /\ r.st = [State EXCEPT !.proposals =
                                     [i \in DOMAIN proposals \ {id} |-> proposals[i]]]
                       /\ r.st.refunds = refunds
                       /\ NoProposal(r.st, id)

\* C27 witness: proposal 0 was removed and its proposer got no refund, while
\* proposal 1 is approved, so that the council's remove of it is refused
C27_RemovedWithoutRefund ==
    /\ 0 \notin DOMAIN proposals
    /\ 1 \in DOMAIN proposals
    /\ proposals[1].status = Approved(0)
    /\ Count(refunds, <<0, 0>>) = 0
    /\ Count(refunds, <<1, 0>>) = 1
    /\ remove(State, Env("a", 0, NoWeight, TotalDelegation), 1).err
           = "ERR_PROPOSAL_NOT_IN_PROGRESS"
    /\ remove(State, Env("c", 0, NoWeight, TotalDelegation), 1).err = "ERR_PERMISSION_DENIED"

\* the tags of an instruction list, and the name of the first kind of
\* policy p, in declaration order, whose required tags all occur among them
Tags(instructions) == {to_enum(instructions[i]) : i \in DOMAIN instructions}
FirstKind(p, instructions) ==
    IF \E i \in DOMAIN p.proposal_kinds :
           p.proposal_kinds[i].required_instrs \subseteq Tags(instructions)
    THEN LET i == CHOOSE i \in DOMAIN p.proposal_kinds :
                     /\ p.proposal_kinds[i].required_instrs \subseteq Tags(instructions)
                     /\ \A j \in 1..(i - 1) :
                            ~(p.proposal_kinds[j].required_instrs \subseteq Tags(instructions))
         IN p.proposal_kinds[i].name
    ELSE ""

\* a proposal that propose stores carries the first matching kind
KindAtCreation ==
    \A caller \in Accounts, d \in Descriptions,
       instructions \in KindSets \cup KindAmendments \cup {<<ChangeKinds>>} :
        LET r == propose(State, Env(caller, 0, NoWeight, TotalDelegation), d, instructions)
        IN r.err = OK => r.st.proposals[r.id].kind = FirstKind(policy.policy, instructions)

\* no step changes the kind of a stored proposal
KindKept ==
    \A id \in DOMAIN proposals \cap DOMAIN proposals' :
        proposals'[id].kind = proposals[id].kind

Resolve(threshold, T) ==
    IF threshold.type = "Ratio"
    THEN LET f == (threshold.num * T) \div threshold.denom + 1
         IN IF T <= f THEN T ELSE f
    ELSE IF threshold.weight <= T THEN threshold.weight ELSE T
TotalOf(vp, total_supply) ==
    IF vp.weight_kind = "TokenWeight" THEN total_supply ELSE Cardinality(Council)

\* C29: get_threshold returns max(quorum, resolve(threshold, T)), with
\* resolve(Ratio(n, d), T) = min(T, floor(n * T / d) + 1) for d >= 1 and
\* resolve(Weight(w), T) = min(w, T); Weight(100) of 1000000 is 100,
\* Ratio(1, 2) of 2 is 2, Ratio(1, 2) of 5 is 3, Ratio(1, 1) of 5 is 5.
C29_ThresholdFormula ==
    /\ \A total \in Totals, kind \in RoleProposalKinds :
           LET vp == policy.policy.default_vote_policy
               g == get_threshold(policy.policy, vp, total, kind)
               r == Resolve(vp.threshold, TotalOf(vp, total))
           IN (vp.threshold.type = "Ratio" => vp.threshold.denom >= 1) =>
                 /\ g.err = OK
                 /\ g.val = IF vp.quorum >= r THEN vp.quorum ELSE r
    /\ to_weight(Weight(100), 1000000) = 100
    /\ to_weight(Ratio(1, 2), 2) = 2
    /\ to_weight(Ratio(1, 2), 5) = 3
    /\ to_weight(Ratio(1, 1), 5) = 5

\* C29 witness: under token weights, Ratio(1, 2) and no quorum, votes of
\* weight 3 approved the proposal against a total of 5, whose threshold is 3
C29_ApprovedAtResolvedWeight ==
    \E id \in DOMAIN proposals :
        /\ policy.policy.default_vote_policy
               = [weight_kind |-> "TokenWeight", quorum |-> 0, threshold |-> Ratio(1, 2)]
        /\ proposals[id].status = Approved(0)
        /\ proposals[id].approve_count[1] = 3
        /\ get_threshold(policy.policy, policy.policy.default_vote_policy, 5,
                         proposals[id].kind).val = 3

\* C30: for a vote policy with a Ratio threshold, the threshold get_threshold
\* returns does not decrease when the total supply grows, and for every vote
\* policy and total the threshold it returns is at least the quorum.
C30_ThresholdMonotone ==
    \A t1 \in Totals, t2 \in Totals, kind \in RoleProposalKinds :
        LET vp == policy.policy.default_vote_policy
            g1 == get_threshold(policy.policy, vp, t1, kind)
            g2 == get_threshold(policy.policy, vp, t2, kind)
        IN /\ g1.err = OK => g1.val >= vp.quorum
           /\ (vp.threshold.type = "Ratio" /\ t1 <= t2 /\ g1.err = OK /\ g2.err = OK)
              => g1.val <= g2.val

\* C30 witness: under token weights and Ratio(1, 2), a proposal with votes of
\* weight 2 is in progress: 2 is the threshold of a total of 2 and below the
\* threshold of a total of 5
C30_LargerTotalRaisesThreshold ==
    \E id \in DOMAIN proposals :
        LET vp == policy.policy.default_vote_policy IN
        /\ vp.weight_kind = "TokenWeight" /\ vp.threshold = Ratio(1, 2) /\ vp.quorum = 1
        /\ proposals[id].status = InProgress
        /\ proposals[id].approve_count[1] = 2
        /\ get_threshold(policy.policy, vp, 2, proposals[id].kind).val = 2
        /\ get_threshold(policy.policy, vp, 5, proposals[id].kind).val = 3

\* the roles of policy p whose permissions grant VoteApprove on a kind
ApproveRoles(p, proposal_kind) ==
    {i \in DOMAIN p.roles : HasPermission(p.roles[i], proposal_kind, "VoteApprove")}

\* C31: under a RoleWeight vote policy get_threshold fails with
\* ERR_UNSUPPORTED_ROLE when a role granting VoteApprove on the proposal's
\* kind is not a Group role, and a vote or veto then changes nothing; when
\* all such roles are Group roles the threshold is
\* max(quorum, resolve(threshold, sum of their group sizes)).
C31_RoleWeightThreshold ==
    \A proposal_kind \in RoleProposalKinds :
        LET p == policy.policy
            vp == get_vote_policy(p, proposal_kind)
            g == get_threshold(p, vp, TotalDelegation, proposal_kind)
            granting == ApproveRoles(p, proposal_kind)
            r == Resolve(vp.threshold, SumSizes(p, granting))
        IN vp.weight_kind = "RoleWeight" =>
              IF \E i \in granting : p.roles[i].kind.type # "Group"
              THEN /\ g.err = "ERR_UNSUPPORTED_ROLE"
                   /\ \A caller \in Accounts, id \in DOMAIN proposals, v \in Versions :
                          LET env == Env(caller, 0, NoWeight, TotalDelegation) IN
                          /\ approve(State, env, id, v).st = State
                          /\ veto(State, env, id, v).st = State
              ELSE /\ g.err = OK
                   /\ g.val = IF vp.quorum >= r THEN vp.quorum ELSE r

(* SpecRoleEdits: member instructions that name a role the policy does not *)
(* have ("missing") or a role that is not a Group ("all"), alone, before a  *)
(* transfer, and after an instruction that edits the council.               *)

RoleEditSets ==
    { << [tag |-> "AddMemberToRole", member_id |-> "c", role |-> "missing"], Transfer >>,
      << [tag |-> "RemoveMemberFromRole", member_id |-> "a", role |-> "all"], Transfer >>,
      << [tag |-> "AddMemberToRole", member_id |-> "c", role |-> "all"] >>,
      << AddMember("b"), [tag |-> "RemoveMemberFromRole", member_id |-> "b", role |-> "missing"] >> }

NextRoleEdits ==
    \/ Propose({"c"}, RoleEditSets, MaxMemberProposals)
    \/ Approve({"a"}, MaxMemberProposals)
    \/ Tick

SpecRoleEdits == InitMembers /\ [][NextRoleEdits]_vars

\* a member instruction naming a role that policy p does not have, or whose
\* first role of that name is not a Group
NamesNoGroup(p, instr) ==
    /\ instr.tag \in {"AddMemberToRole", "RemoveMemberFromRole"}
    /\ \A i \in DOMAIN p.roles :
          (p.roles[i].name = instr.role /\ \A j \in 1..(i - 1) : p.roles[j].name # instr.role)
              => p.roles[i].kind.type # "Group"

\* the instructions without those that name no Group role of p
RECURSIVE WithoutNoGroup(_, _)
WithoutNoGroup(p, instructions) ==
    IF instructions = <<>> THEN <<>>
    ELSE (IF NamesNoGroup(p, Head(instructions)) THEN <<>> ELSE <<Head(instructions)>>)
            \o WithoutNoGroup(p, Tail(instructions))

\* C32: an approved version's AddMemberToRole or RemoveMemberFromRole that
\* names a missing role or a role that is not a Group leaves the role set as
\* it is, execution does not fail, the other instructions execute, and the
\* proposal ends Approved: the approval leaves the state that the approval
\* of the version without those instructions leaves.
C32_MemberOfNoGroupIsNoOp ==
    \A id \in DOMAIN proposals, v \in Versions :
        LET env == Env("a", 0, NoWeight, TotalDelegation)
            proposal == proposals[id]
        IN (/\ proposal.status = InProgress
            /\ v < Len(proposal.versions)
            /\ \E i \in DOMAIN proposal.versions[v + 1].instructions :
                  NamesNoGroup(policy.policy, proposal.versions[v + 1].instructions[i]))
           => LET without == [State EXCEPT !.proposals[id].versions[v + 1].instructions =
                                 WithoutNoGroup(policy.policy, @)]
                  r == approve(State, env, id, v)
                  w == approve(without, env, id, v)
              IN /\ r.err = OK
                 /\ r.st.proposals[id].status = Approved(v)
                 /\ [r.st EXCEPT !.proposals = Empty] = [w.st EXCEPT !.proposals = Empty]

\* proposal id is in progress and past its voting period at the current time
PastPeriod(id) ==
    /\ proposals[id].status = InProgress
    /\ proposals[id].submission_time + policy.policy.proposal_period < now

\* C33: when a proposal is rejected or expires (finalize past its period is
\* the call that runs internal_reject_proposal), for every BountyDone
\* instruction of its versions whose receiver holds a claim on the bounty,
\* that claim is removed from the receiver's list,
\* bounty_claims_count[bounty_id] goes down by one, no bounty amount is
\* transferred and the bounty, its times included, is unchanged.
C33_RejectionReleasesClaim ==
    \A id \in DOMAIN proposals, caller \in Accounts :
        LET r == finalize(State, Env(caller, 0, NoWeight, TotalDelegation), id)
            instr == proposals[id].versions[1].instructions[1]
        IN (/\ PastPeriod(id)
            /\ Permitted(caller, id, "Finalize")
            /\ Len(proposals[id].versions) = 1
            /\ instr.tag = "BountyDone"
            /\ internal_find_claim(instr.bounty_id, ClaimsOf(State, instr.receiver_id)) # 0)
           => LET before == ClaimsOf(State, instr.receiver_id)
                  idx == internal_find_claim(instr.bounty_id, before)
              IN /\ r.err = OK
                 /\ ClaimsOf(r.st, instr.receiver_id) = SeqRemove(before, idx)
                 /\ Count(r.st.bounty_claims_count, instr.bounty_id)
                        = Count(bounty_claims_count, instr.bounty_id) - 1
                 /\ r.st.payouts = payouts
                 /\ r.st.bounties = bounties

(* SpecPayout: the bounty of SpecBounty paid out as often as it can be:     *)
(* the proposal that adds it and those that pay it, created by bounty_done *)
(* or proposed as they are, which propose allows to any proposer.          *)

MaxPayoutProposals == 4
PayoutSets == { <<AddBounty>>, << [tag |-> "BountyDone", bounty_id |-> 0, receiver_id |-> "b"] >> }

NextPayout ==
    \/ Propose({"a"}, PayoutSets, MaxPayoutProposals)
    \/ Approve({"a"}, MaxPayoutProposals)
    \/ BountyClaim(Workers, {0}, MaxPayoutProposals)
    \/ BountyDone(Workers, MaxPayoutProposals)

SpecPayout == InitBounty /\ [][NextPayout]_vars

\* C34: a successful bounty payout makes one transfer of bounty.amount in
\* bounty.token to the receiver and takes one from bounty.times; the bounty
\* is deleted when times is zero after that and is stored with the smaller
\* value otherwise (2 -> 1 stays, 1 -> 0 is deleted).
C34_PayoutDecrementsTimes ==
    \A id \in DOMAIN proposals, voter \in Accounts :
        LET instr == proposals[id].versions[1].instructions[1]
            r == approve(State, Env(voter, 0, NoWeight, TotalDelegation), id, 0)
        IN (/\ instr.tag = "BountyDone"
            /\ r.err = OK
            /\ r.st.proposals[id].status = Approved(0))
           => LET bounty == bounties[instr.bounty_id] IN
              /\ Count(r.st.payouts, <<instr.bounty_id, instr.receiver_id>>)
                    = Count(payouts, <<instr.bounty_id, instr.receiver_id>>) + 1
              /\ \A k \in DOMAIN r.st.payouts \ {<<instr.bounty_id, instr.receiver_id>>} :
                    r.st.payouts[k] = Count(payouts, k)
              /\ IF bounty.times - 1 = 0
                 THEN instr.bounty_id \notin DOMAIN r.st.bounties
                 ELSE /\ instr.bounty_id \in DOMAIN r.st.bounties
                      /\ r.st.bounties[instr.bounty_id] = [bounty EXCEPT !.times = @ - 1]

\* C35: bounty_done(id, who, description), for the sender (who, or the
\* caller when who is None) holding a claim on id: fails with
\* ERR_BOUNTY_CLAIM_COMPLETED when that claim is completed; past
\* start_time + deadline it removes the sender's claim and takes one from
\* bounty_claims_count[id], whoever calls, and creates no proposal; before
\* that it fails with ERR_BOUNTY_DONE_MUST_BE_SELF unless the sender calls,
\* and then marks the claim completed and creates one InProgress proposal
\* whose only instruction is BountyDone{id, sender}.
C35_BountyDone ==
    \A caller \in Workers, who \in Workers \cup {NoAccount}, id \in BountyIds :
        LET sender_id == IF who = NoAccount THEN caller ELSE who
            before == ClaimsOf(State, sender_id)
            idx == internal_find_claim(id, before)
            r == bounty_done(State, Env(caller, 0, NoWeight, TotalDelegation), id, who, "d")
        IN idx # 0 =>
            IF before[idx].completed THEN FailsWith(r, "ERR_BOUNTY_CLAIM_COMPLETED")
            ELSE IF now > before[idx].start_time + before[idx].deadline
            THEN /\ r.err = OK
                 /\ ClaimsOf(r.st, sender_id) = SeqRemove(before, idx)
                 /\ Count(r.st.bounty_claims_count, id) = Count(bounty_claims_count, id) - 1
                 /\ r.st.proposals = proposals
                 /\ r.st.last_proposal_id = last_proposal_id
            ELSE IF sender_id # caller THEN FailsWith(r, "ERR_BOUNTY_DONE_MUST_BE_SELF")
            ELSE /\ r.err = OK
                 /\ ClaimsOf(r.st, sender_id) = [before EXCEPT ![idx].completed = TRUE]
                 /\ r.st.bounty_claims_count = bounty_claims_count
                 /\ DOMAIN r.st.proposals = DOMAIN proposals \cup {last_proposal_id}
                 /\ last_proposal_id \notin DOMAIN proposals
                 /\ \A other \in DOMAIN proposals : r.st.proposals[other] = proposals[other]
                 /\ r.st.proposals[last_proposal_id].status = InProgress
                 /\ Len(r.st.proposals[last_proposal_id].versions) = 1
                 /\ r.st.proposals[last_proposal_id].versions[1].instructions
                        = << [tag |-> "BountyDone", bounty_id |-> id, receiver_id |-> sender_id] >>

\* C36: bounty_giveup(id) by an account that holds a claim on id removes that
\* claim and takes one from bounty_claims_count[id]; the bounty bond goes
\* back to the caller exactly when now - start_time is within
\* bounty_forgiveness_period.  By an account with no claim on id it fails
\* with ERR_NO_BOUNTY_CLAIMS (no claim at all) or ERR_NO_BOUNTY_CLAIM and
\* changes nothing.
C36_BountyGiveup ==
    \A caller \in Workers, id \in BountyIds :
        LET before == ClaimsOf(State, caller)
            idx == internal_find_claim(id, before)
            r == bounty_giveup(State, Env(caller, 0, NoWeight, TotalDelegation), id)
        IN IF idx # 0
           THEN /\ r.err = OK
                /\ ClaimsOf(r.st, caller) = SeqRemove(before, idx)
                /\ Count(r.st.bounty_claims_count, id) = Count(bounty_claims_count, id) - 1
                /\ Count(r.st.bond_returns, caller) = Count(bond_returns, caller) +
                      (IF now - before[idx].start_time <= policy.policy.bounty_forgiveness_period
                       THEN 1 ELSE 0)
                /\ r.st.payouts = payouts /\ r.st.refunds = refunds
           ELSE FailsWith(r, IF caller \in DOMAIN bounty_claimers
                             THEN "ERR_NO_BOUNTY_CLAIM" ELSE "ERR_NO_BOUNTY_CLAIMS")

\* C37: within an in-progress proposal remove_flag[v] is monotone: once
\* withdraw or a veto that crossed the threshold has set it, no later
\* operation, a veto of v whose remove_count[v] is below the threshold
\* included, sets it back to false.
C37_RemoveFlagMonotone ==
    [][\A id \in DOMAIN proposals \cap DOMAIN proposals' :
          (proposals[id].status = InProgress /\ proposals'[id].status = InProgress)
          => \A v \in DOMAIN proposals[id].remove_flag :
                proposals[id].remove_flag[v]
                    => (v \in DOMAIN proposals'[id].remove_flag /\ proposals'[id].remove_flag[v])]_vars

\* C38: every in-progress proposal can still be resolved.  Once its
\* proposal_period has elapsed, finalize by any caller with the Finalize
\* permission succeeds, also for a BountyDone proposal whose claim was given
\* up or removed after bounty_done created it; and no in-progress proposal
\* is in a state where approve and reject abort for every caller and
\* finalize still aborts once the period has elapsed.
C38_ProposalResolvable ==
    \A id \in DOMAIN proposals :
        /\ PastPeriod(id) =>
              \A caller \in Accounts :
                  Permitted(caller, id, "Finalize")
                  => finalize(State, Env(caller, 0, NoWeight, TotalDelegation), id).err = OK
        /\ proposals[id].status = InProgress =>
              \E caller \in Accounts :
                  LET env == Env(caller, 0, NoWeight, TotalDelegation) IN
                  \/ \E v \in Versions : approve(State, env, id, v).err = OK
                  \/ reject(State, env, id).err = OK
                  \/ finalize(State, [env EXCEPT !.block_timestamp =
                                         proposals[id].submission_time
                                             + policy.policy.proposal_period + 1],
                              id).err = OK

\* the bounty-amount transfers made for bounty id to the accounts of S
RECURSIVE PayoutsOf(_, _)
PayoutsOf(id, S) ==
    IF S = {} THEN 0
    ELSE LET a == CHOOSE x \in S : TRUE
         IN Count(payouts, <<id, a>>) + PayoutsOf(id, S \ {a})

\* C39: each bounty claim yields at most one payout: the bounty-amount
\* transfers made to an account for a bounty are never more than the
\* bounty_claim calls the account made on it, and the payouts of a bounty are
\* never more than the times it was created with.
C39_OnePayoutPerClaim ==
    \A id \in BountyIds :
        /\ \A a \in Accounts : Count(payouts, <<id, a>>) <= Count(claims_made, <<id, a>>)
        /\ PayoutsOf(id, Accounts) <= TheBounty.times

\* C40: a proposal whose voting period has elapsed
\* (submission_time + proposal_period < now) never becomes Approved and its
\* instructions are never executed: no approve or reject made after that
\* moves it to Approved(v) or to Rejected.
C40_NoDecisionAfterExpiry ==
    [][\A id \in DOMAIN proposals \cap DOMAIN proposals' :
          PastPeriod(id) => proposals'[id].status = InProgress]_vars

=============================================================================
